---------------------------- MODULE Spec2Model ----------------------------
(***************************************************************************)
(* A model of the SQL evaluation kernel of AgentX: the sandboxed agent     *)
(* (sql_agent.py), the enhanced scorer (evaluation/), the A2A evaluation   *)
(* entry point (a2a/server.py), the multi-dialect parser and the           *)
(* hallucination detector (src/agentx/validation/), the engine adapters    *)
(* and the DatabaseManager (src/agentx/infrastructure/).                   *)
(*                                                                         *)
(* Every component has its own specification (SpecAgent, SpecScorer, ...)  *)
(* over the same variables; a component that a specification does not     *)
(* exercise stays in its Idle value.                                       *)
(*                                                                         *)
(* Scores are integers in thousandths (1000 = 1.0), weights in thousandths *)
(* and an overall score in millionths, so that 0.025 * 0.05 is exact.      *)
(***************************************************************************)
EXTENDS Integers, Sequences, FiniteSets, TLC

VARIABLES agent, scorer, server, parser, detector, adapter, manager

vars == <<agent, scorer, server, parser, detector, adapter, manager>>

Idle == [pc |-> "off"]

Min(a, b) == IF a <= b THEN a ELSE b
Max(a, b) == IF a >= b THEN a ELSE b

RECURSIVE SumSeq(_)
SumSeq(s) == IF s = <<>> THEN 0 ELSE Head(s) + SumSeq(Tail(s))

Range(s) == {s[i] : i \in DOMAIN s}

(***************************************************************************)
(* SQLAgent (sql_agent.py) and its HallucinationDetector (hallucination.py)*)
(*                                                                         *)
(* A query is described by what the code looks at: the class of the parsed *)
(* statement, whether sqlglot parses it, whether it names a table, whether *)
(* its text holds a forbidden word, whether it names a table or column the *)
(* schema lacks, whether the optimizer accepts it, and whether it holds a  *)
(* LIMIT.                                                                  *)
(***************************************************************************)
forbidden ==
    {"Alter", "Drop", "TruncateTable", "Delete", "Update", "Insert", "Create",
     "Grant", "Revoke", "Copy"}

StatementKinds == {"Select"} \cup forbidden

Queries ==
    {q \in [stmt : StatementKinds, parses : BOOLEAN, refsTable : BOOLEAN,
            unsafeWord : BOOLEAN, phantom : {"none", "table", "column"},
            logicOk : BOOLEAN, hasLimit : BOOLEAN] :
        \* the text of a non-SELECT statement holds its own keyword
        /\ (q.stmt \in forbidden => q.unsafeWord)
        \* a phantom table or column needs a table reference
        /\ (q.phantom # "none" => q.refsTable)}

\* HallucinationDetector.validate_safe: raises on a forbidden substring
validate_safe(q) == IF q.unsafeWord THEN "Unsafe operation detected" ELSE "ok"

\* HallucinationDetector.schema_validation: raises on an unknown table or column
schema_validation(q) ==
    CASE q.phantom = "table" -> "Invalid table"
      [] q.phantom = "column" -> "Invalid Column"
      [] OTHER -> "ok"

\* HallucinationDetector.validate_logic: raises when the optimizer rejects
validate_logic(q) == IF q.logicOk THEN "ok" ELSE "Logical Error failed"

\* HallucinationDetector.validate_sql: safety, syntax, schema, logic in order;
\* the first failure is raised
validate_sql(q) ==
    IF validate_safe(q) # "ok" THEN validate_safe(q)
    ELSE IF ~q.parses THEN "Invalid SQL Syntax"
    ELSE IF schema_validation(q) # "ok" THEN schema_validation(q)
    ELSE validate_logic(q)

\* SQLAgent.validate_query: the validation dictionary
validate_query(q) ==
    LET err ==
          IF ~q.parses THEN "Validation error"
          ELSE IF q.stmt # "Select" THEN "Only SELECT queries are allowed"
          ELSE IF ~q.refsTable THEN "Query must reference at least one table"
          ELSE validate_sql(q)
    IN [is_valid |-> err = "ok",
        errors |-> IF err = "ok" THEN <<>> ELSE <<err>>,
        query_type |-> IF q.parses THEN q.stmt ELSE "None"]

\* SQLAgent._add_limit: TRUE when " LIMIT n" is appended to the statement
add_limit(q) == ~q.hasLimit

NoAgentResult ==
    [validation |-> "unset", execution |-> "unset", analysis |-> "unset",
     overall_status |-> "FAILED"]

InitAgent ==
    /\ agent \in {[pc |-> "validate", query |-> q, verbose |-> v,
                   result |-> NoAgentResult, stages |-> <<>>, engineLog |-> <<>>] :
                    q \in Queries, v \in BOOLEAN}
    /\ scorer = Idle /\ server = Idle /\ parser = Idle /\ detector = Idle
    /\ adapter = Idle /\ manager = Idle

\* process_query, step 1: validate; returns early only inside `if verbose:`
AgentValidate ==
    /\ agent.pc = "validate"
    /\ LET v == validate_query(agent.query)
       IN agent' = [agent EXCEPT
               !.result.validation = v,
               !.stages = Append(@, "validate"),
               !.pc = IF agent.verbose /\ ~v.is_valid THEN "done" ELSE "execute"]
    /\ UNCHANGED <<scorer, server, parser, detector, adapter, manager>>

\* process_query, step 2: execute_in_sandbox; the engine's outcome is the
\* environment's, but a statement that does not parse or names a phantom
\* table or column cannot succeed
AgentExecute ==
    /\ agent.pc = "execute"
    /\ \E ok \in BOOLEAN :
        /\ (ok => agent.query.parses /\ agent.query.phantom = "none")
        /\ agent' = [agent EXCEPT
               !.result.execution = [success |-> ok],
               !.engineLog = Append(@, [stmt |-> agent.query.stmt,
                                        limited |-> add_limit(agent.query)]),
               !.stages = Append(@, "execute"),
               !.pc = IF agent.verbose /\ ~ok THEN "done" ELSE "analyze"]
    /\ UNCHANGED <<scorer, server, parser, detector, adapter, manager>>

\* process_query, steps 3 and 4: analyze_results, then overall_status
AgentAnalyze ==
    /\ agent.pc = "analyze"
    /\ agent' = [agent EXCEPT
           !.result.analysis =
               IF agent.result.execution.success THEN "summary"
               ELSE "Query execution failed",
           !.result.overall_status = "SUCCESS",
           !.stages = Append(@, "analyze"),
           !.pc = "done"]
    /\ UNCHANGED <<scorer, server, parser, detector, adapter, manager>>

NextAgent == AgentValidate \/ AgentExecute \/ AgentAnalyze

SpecAgent == InitAgent /\ [][NextAgent]_vars

\* C1: when process_query has returned and validation failed (parse failure,
\* phantom table or phantom column included), nothing was sent to the engine,
\* the status is FAILED, the validation errors are attached and only the
\* validation stage ran -- for verbose on and off.
C1_NoExecutionAfterFailedValidation ==
    (agent.pc = "done" /\ ~agent.result.validation.is_valid)
        => /\ agent.engineLog = <<>>
           /\ agent.result.overall_status = "FAILED"
           /\ agent.result.validation.errors # <<>>
           /\ agent.stages = <<"validate">>

\* C2: a statement that is not a SELECT is never sent to the engine, whatever
\* the other options are.
C2_OnlySelectReachesEngine ==
    \A i \in DOMAIN agent.engineLog : agent.engineLog[i].stmt = "Select"


(***************************************************************************)
(* EnhancedScorer (evaluation/enhanced_scorer.py) and the scoring          *)
(* components of evaluation/advanced_scoring.py.                           *)
(***************************************************************************)
Dimensions ==
    {"correctness", "efficiency", "safety", "result_completeness",
     "semantic_accuracy", "best_practices", "plan_quality"}

\* EnhancedScorer.DEFAULT_WEIGHTS, in thousandths
DEFAULT_WEIGHTS ==
    [d \in Dimensions |->
        CASE d = "correctness" -> 350
          [] d = "efficiency" -> 150
          [] d = "safety" -> 200
          [] d = "result_completeness" -> 100
          [] d = "semantic_accuracy" -> 100
          [] d = "best_practices" -> 50
          [] d = "plan_quality" -> 50]

\* create_enhanced_scorer: the presets "strict", "performance", "quality"
PresetStrict ==
    [d \in Dimensions |->
        CASE d = "correctness" -> 400
          [] d = "efficiency" -> 100
          [] d = "safety" -> 250
          [] d = "result_completeness" -> 100
          [] d = "semantic_accuracy" -> 100
          [] d = "best_practices" -> 25
          [] d = "plan_quality" -> 25]

PresetPerformance ==
    [d \in Dimensions |->
        CASE d = "correctness" -> 300
          [] d = "efficiency" -> 250
          [] d = "safety" -> 150
          [] d = "result_completeness" -> 100
          [] d = "semantic_accuracy" -> 50
          [] d = "best_practices" -> 50
          [] d = "plan_quality" -> 100]

PresetQuality ==
    [d \in Dimensions |->
        CASE d = "correctness" -> 300
          [] d = "efficiency" -> 100
          [] d = "safety" -> 200
          [] d = "result_completeness" -> 100
          [] d = "semantic_accuracy" -> 100
          [] d = "best_practices" -> 150
          [] d = "plan_quality" -> 50]

Presets == {DEFAULT_WEIGHTS, PresetStrict, PresetPerformance, PresetQuality}

\* custom weight maps a caller may pass: a dictionary over some of the
\* dimensions whose values sum to 1.0 (the documented requirement)
CustomWeights ==
    { [d \in Dimensions |-> IF d = "correctness" THEN 400 ELSE 100],
      [d \in {"correctness"} |-> 1000],
      [d \in {"correctness", "safety"} |-> 500] }

\* EnhancedScorer.__init__: `weights or DEFAULT_WEIGHTS.copy()`
InitWeights(given) == IF DOMAIN given = {} THEN DEFAULT_WEIGHTS ELSE given

\* self.weights.get(d, <default of d>) in EnhancedScore.compute_overall
WeightGet(w, d) == IF d \in DOMAIN w THEN w[d] ELSE DEFAULT_WEIGHTS[d]

\* EnhancedScore.compute_overall, in millionths
compute_overall(w, dims) ==
    WeightGet(w, "correctness") * dims.correctness
  + WeightGet(w, "efficiency") * dims.efficiency
  + WeightGet(w, "safety") * dims.safety
  + WeightGet(w, "result_completeness") * dims.result_completeness
  + WeightGet(w, "semantic_accuracy") * dims.semantic_accuracy
  + WeightGet(w, "best_practices") * dims.best_practices
  + WeightGet(w, "plan_quality") * dims.plan_quality

\* EnhancedScorer._compute_correctness
compute_correctness(cmp) == IF cmp.is_match THEN 1000 ELSE cmp.match_score

\* AdaptivePerformanceScorer.COMPLEXITY_MULTIPLIERS
ComplexityMultiplier(level) ==
    CASE level = "simple" -> 1
      [] level = "moderate" -> 2
      [] level = "complex" -> 4
      [] level = "very_complex" -> 8
      [] OTHER -> 1

\* AdaptivePerformanceScorer.DIALECT_MULTIPLIERS, in tenths
DialectMultiplier10(dialect) ==
    CASE dialect = "sqlite" -> 5
      [] dialect = "duckdb" -> 10
      [] dialect = "postgresql" -> 15
      [] dialect = "mysql" -> 15
      [] dialect = "bigquery" -> 100
      [] dialect = "snowflake" -> 100
      [] OTHER -> 10

\* AdaptivePerformanceScorer.get_thresholds, in tenths of a millisecond, for a
\* row estimate of at most 1000 (no logarithmic adjustment)
get_thresholds(level, dialect) ==
    LET m == ComplexityMultiplier(level) * DialectMultiplier10(dialect)
    IN [excellent |-> 10 * m, good |-> 100 * m, acceptable |-> 1000 * m]

\* a scorer whose third segment starts above the end of the second
performance_score_jump(time_ms, th) ==
    LET t == 10 * time_ms
    IN IF t <= th.excellent THEN 1000
       ELSE IF t <= th.good
         THEN 1000 - (200 * (t - th.excellent)) \div (th.good - th.excellent)
       ELSE IF t <= th.acceptable
         THEN 900 - (300 * (t - th.good)) \div (th.acceptable - th.good)
       ELSE Max(0, 500 - (100 * (t - th.acceptable)) \div th.acceptable)

\* AdaptivePerformanceScorer.score; time_ms in milliseconds, the result in
\* thousandths rounded down
performance_score(time_ms, th) ==
    LET t == 10 * time_ms
    IN IF t <= th.excellent THEN 1000
       ELSE IF t <= th.good
         THEN 1000 - (200 * (t - th.excellent)) \div (th.good - th.excellent)
       ELSE IF t <= th.acceptable
         THEN 800 - (300 * (t - th.good)) \div (th.acceptable - th.good)
       ELSE Max(0, 500 - (100 * (t - th.acceptable)) \div th.acceptable)

\* EnhancedScorer._compute_efficiency (use_adaptive_thresholds, the default)
compute_efficiency(er, level, dialect) ==
    IF ~er.success THEN 0
    ELSE performance_score(er.execution_time_ms, get_thresholds(level, dialect))

\* EnhancedScorer._compute_validation_score
compute_validation_score(er) ==
    IF er.is_valid
    THEN Max(0, 1000 - 100 * er.validation_warnings)
    ELSE IF Len(er.validation_errors) = 0 THEN 500
    ELSE IF Len(er.validation_errors) = 1 THEN 300
    ELSE 100

\* The validation error messages, by what the scorers look for in them:
\*   table    "Table 'x' does not exist in schema"
\*   column   "Column 'c' does not exist"
\*   function "Function f does not exist"
\*   syntax   "syntax error at or near ..."
ErrorKinds == {"table", "column", "function", "syntax"}

\* EnhancedScorer._compute_safety: the substring tests that sort the errors
IsPhantomTable(e) == e = "table"
IsPhantomColumn(e) == e = "column"
IsPhantomFunction(e) == e = "function"

\* HallucinationSeverity.SEVERITY_WEIGHTS and the penalty sum of
\* WeightedHallucinationScorer.score, in tenths
weighted_penalty(tables, columns, functions) ==
    Len(tables) * 10 + Len(columns) * 8 + Len(functions) * 6

\* The curve with the sign of its last branch turned: beyond a penalty of 2.0
\* the score rises with the penalty.
hallucination_curve_rising(p) ==
    IF p = 0 THEN 1000
    ELSE IF p < 10 THEN 1000 - p * 60
    ELSE IF p < 20 THEN 400 - (p - 10) * 30
    ELSE Min(1000, 100 + (p - 20) * 5)

\* WeightedHallucinationScorer.score: penalty to score, diminishing returns
hallucination_curve(p) ==
    IF p = 0 THEN 1000
    ELSE IF p < 10 THEN 1000 - p * 60
    ELSE IF p < 20 THEN 400 - (p - 10) * 30
    ELSE Max(0, 100 - (p - 20) * 5)

\* WeightedHallucinationScorer.score
weighted_hallucination_score(tables, columns, functions) ==
    hallucination_curve(weighted_penalty(tables, columns, functions))

\* EnhancedScorer._compute_safety
compute_safety(er) ==
    LET v == compute_validation_score(er)
        h == weighted_hallucination_score(
                 SelectSeq(er.validation_errors, IsPhantomTable),
                 SelectSeq(er.validation_errors,
                           LAMBDA e : ~IsPhantomTable(e) /\ IsPhantomColumn(e)),
                 SelectSeq(er.validation_errors,
                           LAMBDA e : ~IsPhantomTable(e) /\ ~IsPhantomColumn(e)
                                      /\ IsPhantomFunction(e)))
    IN [safety |-> (4 * v + 6 * h) \div 10, hallucination |-> h]

\* The insight strings, by the keyword _compute_completeness finds first
InsightKinds == {"empty", "truncated", "null", "slow", "other"}

InsightPenalty(i) ==
    CASE i = "empty" -> 200
      [] i = "truncated" -> 100
      [] i = "null" -> 50
      [] i = "slow" -> 100
      [] OTHER -> 0

\* EnhancedScorer._compute_completeness
compute_completeness(er) ==
    IF ~er.success THEN 0
    ELSE LET s == 1000 - SumSeq([i \in DOMAIN er.insights |->
                                    InsightPenalty(er.insights[i])])
             b == IF er.rows_returned > 0 THEN Min(1000, s + 100) ELSE s
         IN Max(0, b)

\* ErrorTaxonomyClassifier.classify: the severity of an error, in tenths
Severity10(e) ==
    CASE e = "syntax" -> 10
      [] e = "table" -> 9
      [] e = "column" -> 8
      [] OTHER -> 7

\* ErrorTaxonomyClassifier.score_errors
score_errors(errors) ==
    LET s == SumSeq([i \in DOMAIN errors |-> Severity10(errors[i])])
    IN IF errors = <<>> THEN 1000
       ELSE IF s = 0 THEN 1000
       ELSE IF s < 10 THEN 1000 - s * 50
       ELSE IF s < 20 THEN 500 - (s - 10) * 30
       ELSE Max(0, 200 - (s - 20) * 10)

\* SQLBestPracticesScorer.score over the features of the text it tests:
\* star (SELECT\s+\*), comma (FROM a, b), joinWord ("JOIN" in the text),
\* whereWord, exempt (LIMIT 1, COUNT( or a constant select), distinct, groupBy
best_practices_score(f) ==
    LET s1 == 1000 - (IF f.star THEN 100 ELSE 0) - (IF f.comma THEN 100 ELSE 0)
        s2 == s1 - (IF ~f.whereWord /\ ~f.exempt THEN 50 ELSE 0)
        s3 == s2 - (IF f.comma /\ ~f.joinWord THEN 100 ELSE 0)
        s4 == s3 - (IF f.distinct /\ f.groupBy THEN 50 ELSE 0)
    IN Max(0, Min(1000, s4))

\* ExecutionPlanAnalyzer._calculate_plan_score over what analyze extracts
calculate_plan_score(p) ==
    LET s1 == 1000 - (IF p.full_scan THEN 300 ELSE 0)
        s2 == s1 + (IF p.index_scan THEN 100 ELSE 0)
        s3 == s2 - (IF p.cost > 10000 THEN 200 ELSE IF p.cost > 1000 THEN 100 ELSE 0)
        s4 == s3 - (IF p.rows > 100000 THEN 150 ELSE IF p.rows > 10000 THEN 50 ELSE 0)
    IN Max(0, Min(1000, s4))

\* SemanticAccuracyScorer.score: the weighted average of its four parts
semantic_overall(x) ==
    (500 * x.value_accuracy + 200 * x.distribution_similarity
     + 150 * x.null_handling + 150 * x.type_consistency) \div 1000

\* EnhancedScorer.score: the whole call
EnhancedScore(w, in) ==
    LET level == IF in.sql.given THEN in.sql.level ELSE "simple"
        saf == compute_safety(in.er)
        dims ==
          [correctness |-> compute_correctness(in.cmp),
           efficiency |-> compute_efficiency(in.er, level, in.dialect),
           safety |-> saf.safety,
           result_completeness |-> compute_completeness(in.er),
           semantic_accuracy |->
               IF ~in.expected.given THEN in.cmp.match_score
               ELSE IF in.er.rows_returned = 0 \/ ~in.expected.common THEN 0
               ELSE semantic_overall(in.expected),
           best_practices |->
               IF in.sql.given THEN best_practices_score(in.sql) ELSE 1000,
           plan_quality |->
               IF in.plan.given THEN calculate_plan_score(in.plan) ELSE 1000]
    IN [dims |-> dims,
        validation_score |-> compute_validation_score(in.er),
        performance_score |-> dims.efficiency,
        hallucination_score |-> saf.hallucination,
        error_severity_score |->
            IF in.er.validation_errors = <<>> THEN 1000
            ELSE score_errors(in.er.validation_errors),
        weights |-> w,
        overall |-> compute_overall(w, dims)]


\* The inputs of one score() call ------------------------------------------
Comparisons == [is_match : BOOLEAN, match_score : {0, 500, 1000}]

\* is_valid, validation_errors and the number of validation_warnings of an
\* ExecutionResult: a valid result carries no error
ScorerValidations ==
    {[is_valid |-> TRUE, validation_errors |-> <<>>, validation_warnings |-> w] :
        w \in {0, 1}}
    \cup
    {[is_valid |-> FALSE, validation_errors |-> e, validation_warnings |-> 0] :
        e \in {<<>>, <<"table">>, <<"table", "column">>}}

WithExecution(v, ok, t, rows, ins) ==
    [success |-> ok, is_valid |-> v.is_valid,
     validation_errors |-> v.validation_errors,
     validation_warnings |-> v.validation_warnings,
     execution_time_ms |-> t, rows_returned |-> rows, insights |-> ins]

\* a failed execution has no rows, no timing and no insight
ScorerExecutionResults ==
    {WithExecution(v, FALSE, 0, 0, <<>>) : v \in ScorerValidations}
    \cup
    {WithExecution(v, TRUE, t, r[1], r[2]) :
        v \in ScorerValidations, t \in {5, 30, 400, 20000},
        r \in {<<0, <<"empty">> >>, <<0, <<>> >>, <<5, <<>> >>,
               <<5, <<"truncated", "null">> >>}}

\* sql, plan_text and expected_results are optional: given is FALSE for None
SqlText(g, l, star, comma, where) ==
    [given |-> g, level |-> l, star |-> star, comma |-> comma, joinWord |-> FALSE,
     whereWord |-> where, exempt |-> FALSE, distinct |-> FALSE, groupBy |-> FALSE]

SqlTexts ==
    {SqlText(FALSE, "simple", FALSE, FALSE, FALSE)} \cup
    {SqlText(TRUE, l, b[1], b[2], b[3]) :
        l \in {"simple", "complex"},
        b \in {<<FALSE, FALSE, TRUE>>, <<TRUE, TRUE, FALSE>>}}

PlanTexts ==
    {[given |-> FALSE, full_scan |-> FALSE, index_scan |-> FALSE, cost |-> 0, rows |-> 0],
     [given |-> TRUE, full_scan |-> TRUE, index_scan |-> FALSE, cost |-> 20000,
      rows |-> 200000],
     [given |-> TRUE, full_scan |-> FALSE, index_scan |-> TRUE, cost |-> 50, rows |-> 10]}

\* expected_results, by what SemanticAccuracyScorer computes from them and the
\* actual rows: whether they share a column, and the four part scores
Expected(g, va, ds, nh, tc) ==
    [given |-> g, common |-> TRUE, value_accuracy |-> va,
     distribution_similarity |-> ds, null_handling |-> nh, type_consistency |-> tc]

ExpectedRows ==
    {Expected(FALSE, 0, 0, 0, 0), Expected(TRUE, 1000, 1000, 1000, 1000),
     Expected(TRUE, 500, 0, 800, 300)}

ScorerInputs ==
    [cmp : Comparisons, er : ScorerExecutionResults, sql : SqlTexts,
     dialect : {"sqlite", "bigquery"}, plan : PlanTexts, expected : ExpectedRows]

NoWeights == [d \in {} |-> 0]

InitScorer ==
    /\ scorer \in {[pc |-> "ready", given |-> g, weights |-> InitWeights(g),
                    in |-> "none", score |-> "none"] :
                     g \in Presets \cup CustomWeights \cup {NoWeights}}
    /\ agent = Idle /\ server = Idle /\ parser = Idle /\ detector = Idle
    /\ adapter = Idle /\ manager = Idle

\* EnhancedScorer.score
ScorerScore ==
    /\ scorer.pc = "ready"
    /\ \E in \in ScorerInputs :
        scorer' = [scorer EXCEPT !.pc = "scored", !.in = in,
                                 !.score = EnhancedScore(scorer.weights, in)]
    /\ UNCHANGED <<agent, server, parser, detector, adapter, manager>>

NextScorer == ScorerScore

SpecScorer == InitScorer /\ [][NextScorer]_vars

WeightOf(w, d) == IF d \in DOMAIN w THEN w[d] ELSE 0

\* C3: the overall score equals the sum over the seven dimensions of
\* weights[d] * score[d], for the weight vector the scorer computes with
\* (default, preset or custom).
C3_OverallIsWeightedSum ==
    scorer.pc = "scored" =>
        LET w == scorer.score.weights
            x == scorer.score.dims
        IN scorer.score.overall =
               WeightOf(w, "correctness") * x.correctness
             + WeightOf(w, "efficiency") * x.efficiency
             + WeightOf(w, "safety") * x.safety
             + WeightOf(w, "result_completeness") * x.result_completeness
             + WeightOf(w, "semantic_accuracy") * x.semantic_accuracy
             + WeightOf(w, "best_practices") * x.best_practices
             + WeightOf(w, "plan_quality") * x.plan_quality

\* C4: every dimension score, every sub-score and the overall score lies in
\* [0, 1].
C4_ScoresInUnitInterval ==
    scorer.pc = "scored" =>
        /\ \A d \in Dimensions : scorer.score.dims[d] \in 0..1000
        /\ scorer.score.validation_score \in 0..1000
        /\ scorer.score.performance_score \in 0..1000
        /\ scorer.score.hallucination_score \in 0..1000
        /\ scorer.score.error_severity_score \in 0..1000
        /\ scorer.score.overall >= 0
        /\ scorer.score.overall <= 1000 * 1000

(***************************************************************************)
(* The safety dimension on its own: _compute_safety applied to an          *)
(* execution result, and again after one more phantom-table finding has    *)
(* been added to its validation errors.                                    *)
(***************************************************************************)
MaxErrors == 4
MaxWarnings == 3

RECURSIVE SeqsUpTo(_, _)
SeqsUpTo(S, n) ==
    IF n = 0 THEN {<<>>}
    ELSE LET shorter == SeqsUpTo(S, n - 1)
         IN shorter \cup {Append(q, x) : q \in shorter, x \in S}

\* is_valid, validation_errors and validation_warnings of an execution
\* result: a valid result carries no error, an invalid one no warning count
\* that matters (the invalid branch never reads the warnings)
SafetyValidations ==
    {[is_valid |-> TRUE, validation_errors |-> <<>>, validation_warnings |-> w] :
        w \in 0..MaxWarnings}
    \cup
    {[is_valid |-> FALSE, validation_errors |-> e, validation_warnings |-> w] :
        e \in SeqsUpTo(ErrorKinds, MaxErrors - 1), w \in {0, MaxWarnings}}

InitSafety ==
    /\ scorer \in {[pc |-> "input", er |-> er, safety |-> 0, added |-> 0] :
                     er \in SafetyValidations}
    /\ agent = Idle /\ server = Idle /\ parser = Idle /\ detector = Idle
    /\ adapter = Idle /\ manager = Idle

\* EnhancedScorer._compute_safety on the execution result
SafetyCompute ==
    /\ scorer.pc = "input"
    /\ scorer' = [scorer EXCEPT !.pc = "computed",
                                 !.safety = compute_safety(scorer.er).safety]
    /\ UNCHANGED <<agent, server, parser, detector, adapter, manager>>

\* The same execution result with one more "Table 'x' does not exist" among
\* its validation errors (and so not valid), scored again
SafetyAddPhantomTable ==
    /\ scorer.pc = "computed"
    /\ Len(scorer.er.validation_errors) < MaxErrors
    /\ LET er == [scorer.er EXCEPT
                     !.is_valid = FALSE,
                     !.validation_errors = Append(@, "table")]
       IN scorer' = [scorer EXCEPT !.er = er,
                                   !.safety = compute_safety(er).safety,
                                   !.added = @ + 1]
    /\ UNCHANGED <<agent, server, parser, detector, adapter, manager>>

NextSafety == SafetyCompute \/ SafetyAddPhantomTable

SpecSafety == InitSafety /\ [][NextSafety]_vars

\* C8: adding one more phantom-table finding to an execution result, all
\* else equal, never yields a higher safety score.
C8_SafetyMonotoneInPhantomTables ==
    [][(scorer.pc = "computed" /\ scorer'.pc = "computed"
        /\ scorer'.added = scorer.added + 1)
            => scorer'.safety <= scorer.safety]_vars

\* a phantom table was added to a result that already held findings, and the
\* safety score went strictly below that of a clean result
C8_Witness ==
    /\ scorer.pc = "computed"
    /\ scorer.added >= 2
    /\ Len(scorer.er.validation_errors) >= 3
    /\ scorer.safety < 360

(***************************************************************************)
(* A2AServer (a2a/server.py): agent registration and evaluate_submission.  *)
(*                                                                         *)
(* executor.process_query is an input of the model: evaluate_submission    *)
(* reads only the fields of the result it returns.                         *)
(***************************************************************************)
MaxStored == 2

AgentIds == {"a1", "a2"}

\* self.tasks after _load_tasks, and a task id that is not loaded
LoadedTasks == {"t1"}
TaskIds == LoadedTasks \cup {"t9"}

\* what executor.process_query(sql, verbose=False) may return: a failed
\* result for every validation outcome, a successful one for a valid query
ProcessResults ==
    {WithExecution(v, FALSE, 0, 0, <<>>) : v \in ScorerValidations}
    \cup
    {WithExecution([is_valid |-> TRUE, validation_errors |-> <<>>,
                    validation_warnings |-> 0], TRUE, 5, r[1], r[2]) :
        r \in {<<0, <<"empty">> >>, <<5, <<>> >>}}

\* the sql of a submission, by the features the best-practices scorer reads
SubmittedSql ==
    {SqlText(TRUE, "simple", b[1], b[2], b[3]) :
        b \in {<<FALSE, FALSE, TRUE>>, <<TRUE, TRUE, FALSE>>}}

\* EvaluationResult.scores is None
NoScores == [given |-> FALSE]

\* the ScoreBreakdown evaluate_submission builds from the EnhancedScore
ScoreBreakdown(score) ==
    [given |-> TRUE,
     overall |-> score.overall,
     correctness |-> score.dims.correctness,
     efficiency |-> score.dims.efficiency,
     safety |-> score.dims.safety,
     completeness |-> score.dims.result_completeness,
     semantic_accuracy |-> score.dims.semantic_accuracy,
     best_practices |-> score.dims.best_practices,
     plan_quality |-> score.dims.plan_quality,
     validation_score |-> score.validation_score,
     hallucination_score |-> score.hallucination_score,
     performance_score |-> score.performance_score]

\* the self-comparison evaluate_submission hands to the scorer
SelfComparison == [is_match |-> TRUE, match_score |-> 1000]

NoPlan ==
    [given |-> FALSE, full_scan |-> FALSE, index_scan |-> FALSE, cost |-> 0, rows |-> 0]

\* A2AServer.evaluate_submission: the EvaluationResult it returns
EvaluationResult(tasks, dialect, task_id, sql, result) ==
    IF task_id \notin tasks
    THEN [given |-> TRUE, task_id |-> task_id, status |-> "error",
          execution_success |-> FALSE, is_valid |-> FALSE,
          validation_errors |-> <<>>, validation_warnings |-> 0,
          scores |-> NoScores]
    ELSE [given |-> TRUE, task_id |-> task_id,
          status |-> IF result.success THEN "success" ELSE "failed",
          execution_success |-> result.success,
          is_valid |-> result.is_valid,
          validation_errors |-> result.validation_errors,
          validation_warnings |-> result.validation_warnings,
          scores |->
            IF result.success
            THEN ScoreBreakdown(EnhancedScore(DEFAULT_WEIGHTS,
                     [cmp |-> SelfComparison, er |-> result, sql |-> sql,
                      dialect |-> dialect, plan |-> NoPlan,
                      expected |-> Expected(FALSE, 0, 0, 0, 0)]))
            ELSE NoScores]

\* who made the last submission, and whether that agent_id had results
\* to append to; none after a registration
NoCaller == [given |-> FALSE, agent_id |-> "", registered |-> FALSE]

InitServer ==
    /\ server = [pc |-> "on", dialect |-> "sqlite", tasks |-> LoadedTasks,
                 agents |-> {}, results |-> <<>>, last |-> [given |-> FALSE],
                 by |-> NoCaller]
    /\ agent = Idle /\ scorer = Idle /\ parser = Idle /\ detector = Idle
    /\ adapter = Idle /\ manager = Idle

\* A2AServer.register_agent
ServerRegister ==
    /\ server.pc = "on"
    /\ \E id \in AgentIds :
        server' = [server EXCEPT
            !.agents = @ \cup {id},
            !.results = [a \in DOMAIN @ \cup {id} |->
                            IF a = id THEN <<>> ELSE @[a]],
            !.by = NoCaller]
    /\ UNCHANGED <<agent, scorer, parser, detector, adapter, manager>>

\* A2AServer.evaluate_submission: the server after the call
evaluate_submission(s, id, task_id, sql, result) ==
    LET ev == EvaluationResult(s.tasks, s.dialect, task_id, sql, result)
        store == task_id \in s.tasks /\ id \in DOMAIN s.results
    IN [s EXCEPT
          !.last = ev,
          !.by = [given |-> TRUE, agent_id |-> id,
                  registered |-> id \in DOMAIN s.results],
          !.results = IF store THEN [@ EXCEPT ![id] = Append(@, ev)] ELSE @]

\* A2AServer.evaluate_submission
ServerEvaluate ==
    /\ server.pc = "on"
    /\ \E id \in AgentIds, task_id \in TaskIds, sql \in SubmittedSql,
          result \in ProcessResults :
        /\ id \in DOMAIN server.results =>
              Len(server.results[id]) < MaxStored
        /\ server' = evaluate_submission(server, id, task_id, sql, result)
    /\ UNCHANGED <<agent, scorer, parser, detector, adapter, manager>>

\* the submissions of a batch: a task id and what process_query returns
BatchSubmissions ==
    {[task_id |-> t, result |-> r] :
        t \in TaskIds,
        r \in {WithExecution([is_valid |-> TRUE, validation_errors |-> <<>>,
                              validation_warnings |-> 0], ok, 5, 5, <<>>) :
                  ok \in BOOLEAN}}

\* A2AServer.evaluate_batch with two submissions: evaluate_submission for
\* each in turn
ServerEvaluateBatch ==
    /\ server.pc = "on"
    /\ \E id \in AgentIds, sql \in SubmittedSql,
          first \in BatchSubmissions, second \in BatchSubmissions :
        /\ id \in DOMAIN server.results =>
              Len(server.results[id]) + 2 <= MaxStored
        /\ server' = evaluate_submission(
                        evaluate_submission(server, id, first.task_id, sql,
                                            first.result),
                        id, second.task_id, sql, second.result)
    /\ UNCHANGED <<agent, scorer, parser, detector, adapter, manager>>

NextServer == ServerRegister \/ ServerEvaluate \/ ServerEvaluateBatch

SpecServer == InitServer /\ [][NextServer]_vars

\* C6: every evaluation of a known task returns a result that carries
\* scores, also when the query failed; on failure efficiency and
\* result_completeness are 0, correctness is the comparator's match score
\* and safety is computed from the validation errors.
C6_EveryEvaluationScored ==
    (server.pc = "on" /\ server.last.given /\ server.last.task_id \in server.tasks)
        => /\ server.last.scores.given
           /\ ~server.last.execution_success =>
                 /\ server.last.scores.efficiency = 0
                 /\ server.last.scores.completeness = 0
                 /\ server.last.scores.correctness = SelfComparison.match_score
                 /\ server.last.scores.safety =
                        compute_safety(
                            [is_valid |-> server.last.is_valid,
                             validation_errors |-> server.last.validation_errors,
                             validation_warnings |->
                                 server.last.validation_warnings]).safety

(***************************************************************************)
(* MultiDialectSQLParser.parse (src/agentx/validation/sql_parser.py).      *)
(*                                                                         *)
(* sqlglot.parse_one either returns an AST, raises ParseError, or raises   *)
(* another exception (TokenError, ValueError for a dialect sqlglot does    *)
(* not know, ...).  A SQL text is described by which of the three each     *)
(* sqlglot reader does with it, and what the error-tolerant parse does.    *)
(***************************************************************************)
ParseOutcomes == {"ok", "ParseError", "OtherError"}

\* the dialects sqlglot itself is asked to read; "default" is read=None
SqlglotReaders ==
    {"sqlite", "postgres", "duckdb", "bigquery", "snowflake", "mysql", "default"}

\* dialects/registry.py: Dialect and DIALECT_CONFIGS[d].sqlglot_dialect
RegistryDialects ==
    {"sqlite", "duckdb", "postgresql", "bigquery", "snowflake", "mysql"}

sqlglot_dialect(d) == IF d = "postgresql" THEN "postgres" ELSE d

\* the dialect names parse may be called with: the registry's, a name only
\* sqlglot knows, an unknown name, and "" for dialect=None
DialectNames == RegistryDialects \cup {"postgres", "nosuchdialect", ""}

SqlTextsToParse == [out : [SqlglotReaders -> ParseOutcomes], ignore : ParseOutcomes]

\* sqlglot.parse_one(sql, read=reader)
parse_one(sql, reader) ==
    IF reader \in SqlglotReaders THEN sql.out[reader] ELSE "OtherError"

fallback_order == <<"sqlite", "postgres", "duckdb", "bigquery", "default">>

\* the last resort of _parse_with_fallback: error_level=IGNORE inside a bare
\* try/except
parse_ignoring_errors(sql, primary_dialect) ==
    IF sql.ignore = "ok"
    THEN [raised |-> FALSE, ast |-> "recovered", dialect |-> primary_dialect]
    ELSE [raised |-> FALSE, ast |-> "none", dialect |-> "none"]

\* The loop with `except ParseError:` in place of the bare `except:`: any
\* other exception of a fallback reader leaves the function.
RECURSIVE parse_with_fallback_narrow_from(_, _, _)
parse_with_fallback_narrow_from(sql, primary_dialect, i) ==
    IF i > Len(fallback_order) THEN parse_ignoring_errors(sql, primary_dialect)
    ELSE LET fallback == fallback_order[i]
         IN IF fallback = primary_dialect
            THEN parse_with_fallback_narrow_from(sql, primary_dialect, i + 1)
            ELSE IF parse_one(sql, fallback) = "ok"
            THEN [raised |-> FALSE, ast |-> fallback,
                  dialect |-> IF fallback = "default" THEN "none" ELSE fallback]
            ELSE IF parse_one(sql, fallback) = "OtherError"
            THEN [raised |-> TRUE, ast |-> "none", dialect |-> "none"]
            ELSE parse_with_fallback_narrow_from(sql, primary_dialect, i + 1)

parse_with_fallback_narrow(sql, primary_dialect) ==
    parse_with_fallback_narrow_from(sql, primary_dialect, 1)

\* MultiDialectSQLParser._parse_with_fallback from the i-th fallback on
RECURSIVE parse_with_fallback_from(_, _, _)
parse_with_fallback_from(sql, primary_dialect, i) ==
    IF i > Len(fallback_order) THEN parse_ignoring_errors(sql, primary_dialect)
    ELSE LET fallback == fallback_order[i]
         IN IF fallback = primary_dialect
            THEN parse_with_fallback_from(sql, primary_dialect, i + 1)
            ELSE IF parse_one(sql, fallback) = "ok"
            THEN [raised |-> FALSE, ast |-> fallback,
                  dialect |-> IF fallback = "default" THEN "none" ELSE fallback]
            ELSE parse_with_fallback_from(sql, primary_dialect, i + 1)

\* MultiDialectSQLParser._parse_with_fallback
parse_with_fallback(sql, primary_dialect) ==
    parse_with_fallback_from(sql, primary_dialect, 1)

\* ParsedSQL, and the outcome of a call that raised instead of returning
ParsedSQL(ast, dialect, identifiers, is_valid, parse_error) ==
    [raised |-> FALSE, ast |-> ast, dialect |-> dialect,
     identifiers |-> identifiers, is_valid |-> is_valid,
     parse_error |-> parse_error]

Raised ==
    [raised |-> TRUE, ast |-> "none", dialect |-> "none", identifiers |-> "none",
     is_valid |-> FALSE, parse_error |-> "none"]

\* MultiDialectSQLParser.parse.  _extract_identifiers only walks the AST with
\* find_all and reads name, alias, db, catalog and table, so it returns for
\* every AST ("extracted"); IdentifierSet() is "empty".
parse(default_dialect, sql, dialect_arg) ==
    LET dialect == IF dialect_arg = "" THEN default_dialect ELSE dialect_arg
        reader == IF dialect \in RegistryDialects THEN sqlglot_dialect(dialect)
                  ELSE dialect
        first == parse_one(sql, reader)
    IN IF first = "ok"
       THEN ParsedSQL(reader, dialect, "extracted", TRUE, "none")
       ELSE IF first = "ParseError"
       THEN LET fb == parse_with_fallback(sql, dialect)
            IN IF fb.raised THEN Raised
               ELSE IF fb.ast # "none"
               THEN ParsedSQL(fb.ast,
                              IF fb.dialect = "none" THEN dialect ELSE fb.dialect,
                              "extracted", TRUE, "none")
               ELSE ParsedSQL("none", dialect, "empty", FALSE, "ParseError")
       ELSE ParsedSQL("none", dialect, "empty", FALSE, "OtherError")

InitParser ==
    /\ parser \in {[pc |-> "ready", default_dialect |-> "sqlite", sql |-> sql,
                     dialect |-> d, result |-> Raised] :
                        sql \in SqlTextsToParse, d \in DialectNames}
    /\ agent = Idle /\ scorer = Idle /\ server = Idle /\ detector = Idle
    /\ adapter = Idle /\ manager = Idle

\* one call of parse(sql, dialect)
ParserParse ==
    /\ parser.pc = "ready"
    /\ parser' = [parser EXCEPT
                    !.pc = "returned",
                    !.result = parse(parser.default_dialect, parser.sql,
                                     parser.dialect)]
    /\ UNCHANGED <<agent, scorer, server, detector, adapter, manager>>

NextParser == ParserParse

SpecParser == InitParser /\ [][NextParser]_vars

\* C5: parse is total: for every SQL text and every dialect name, on the
\* direct path, on every fallback path and on the error-tolerant last
\* resort, it returns a ParsedSQL and never raises; a failure is is_valid =
\* false together with a parse error, a success carries an AST and no error.
C5_ParseIsTotal ==
    parser.pc = "returned" =>
        /\ ~parser.result.raised
        /\ parser.result.is_valid =>
              parser.result.ast # "none" /\ parser.result.parse_error = "none"
        /\ ~parser.result.is_valid =>
              parser.result.ast = "none" /\ parser.result.parse_error # "none"

\* the primary reader raised ParseError, a fallback reader raised something
\* else, the error-tolerant parse failed too, and parse returned is_valid =
\* false
C5_Witness ==
    /\ parser.pc = "returned"
    /\ parser.dialect = "bigquery"
    /\ parser.sql.out["bigquery"] = "ParseError"
    /\ parser.sql.out["sqlite"] = "OtherError"
    /\ parser.sql.ignore # "ok"
    /\ ~parser.result.raised
    /\ ~parser.result.is_valid
    /\ parser.result.parse_error = "ParseError"

(***************************************************************************)
(* HallucinationDetector (src/agentx/validation/hallucination.py) over a   *)
(* SchemaSnapshot (src/agentx/infrastructure/models.py).                   *)
(*                                                                         *)
(* An identifier is a string in the spelling the query or the schema uses; *)
(* a dotted name ("main.users", "x.id") is the sequence of its parts.      *)
(* sqlglot keeps the spelling of an identifier, so the tables, columns and *)
(* alias names of the parsed query are spelled as written.                 *)
(***************************************************************************)

\* the identifiers of the model, in lower and in upper case
CasePairs ==
    {<<"users", "USERS">>, <<"orders", "ORDERS">>, <<"ghost", "GHOST">>,
     <<"main", "MAIN">>, <<"m", "M">>, <<"x", "X">>, <<"id", "ID">>,
     <<"name", "NAME">>, <<"total", "TOTAL">>, <<"a", "A">>,
     <<"nocol", "NOCOL">>, <<"count", "COUNT">>, <<"now", "NOW">>,
     <<"ifnull", "IFNULL">>}

\* str.lower() and str.upper()
lower(p) ==
    IF \E c \in CasePairs : c[2] = p
    THEN (CHOOSE c \in CasePairs : c[2] = p)[1] ELSE p

upper(p) ==
    IF \E c \in CasePairs : c[1] = p
    THEN (CHOOSE c \in CasePairs : c[1] = p)[2] ELSE p

\* lower() of a dotted name, and name.split(".")[-1]
LowerName(n) == [i \in DOMAIN n |-> lower(n[i])]
UpperName(n) == [i \in DOMAIN n |-> upper(n[i])]
LastPart(n) == n[Len(n)]

\* SchemaSnapshot.tables: table name -> the names of its columns
NoTables == [t \in {} |-> {}]

SchemaSnapshots ==
    {[tables |-> (<<"users">> :> {"id", "name"}) @@ (<<"orders">> :> {"id", "total"})],
     [tables |-> (<<"USERS">> :> {"ID", "NAME"})],
     [tables |-> (<<"main", "users">> :> {"id"})],
     [tables |-> NoTables]}

\* SchemaSnapshot.has_table
has_table(schema, name) ==
    \E t \in DOMAIN schema.tables : LowerName(t) = LowerName(name)

\* SchemaSnapshot.get_table: the columns of the table, none if it is absent
get_table(schema, name) ==
    IF has_table(schema, name)
    THEN [found |-> TRUE,
          columns |-> schema.tables[CHOOSE t \in DOMAIN schema.tables :
                                        LowerName(t) = LowerName(name)]]
    ELSE [found |-> FALSE, columns |-> {}]

CteMarkers == {"(cte)", "(subquery)"}

cte_aliases(aliases) == {a \in DOMAIN aliases : aliases[a] \in CteMarkers}

\* _detect_phantom_tables with `or` between the two has_table tests
detect_phantom_tables_either(tables, aliases, schema) ==
    SelectSeq(tables, LAMBDA table :
        /\ ~\E a \in cte_aliases(aliases) : table = <<a>>
        /\ (~has_table(schema, <<LastPart(table)>>) \/ ~has_table(schema, table)))

\* HallucinationDetector._detect_phantom_tables
detect_phantom_tables(tables, aliases, schema) ==
    SelectSeq(tables, LAMBDA table :
        /\ ~\E a \in cte_aliases(aliases) : table = <<a>>
        /\ ~has_table(schema, <<LastPart(table)>>)
        /\ ~has_table(schema, table))

\* The columns of the table a referenced name resolves to:
\* schema.get_table(table_name) or schema.get_table(table)
referenced_columns(schema, table) ==
    IF get_table(schema, <<LastPart(table)>>).found
    THEN get_table(schema, <<LastPart(table)>>).columns
    ELSE get_table(schema, table).columns

\* valid_columns of _detect_phantom_columns
valid_columns(tables, aliases, schema, select_aliases, cte_columns) ==
    select_aliases
    \cup UNION {cte_columns[n] : n \in DOMAIN cte_columns}
    \cup UNION {{lower(c) : c \in referenced_columns(schema, t)} : t \in Range(tables)}
    \cup UNION {{lower(c) : c \in get_table(schema, <<aliases[a]>>).columns} :
                   a \in DOMAIN aliases \ cte_aliases(aliases)}

\* valid_qualified of _detect_phantom_columns, as pairs <<qualifier, column>>
valid_qualified(tables, aliases, schema, cte_columns) ==
    UNION {{<<n, c>> : c \in cte_columns[n]} : n \in DOMAIN cte_columns}
    \cup UNION {{<<lower(LastPart(t)), lower(c)>> :
                    c \in referenced_columns(schema, t)} : t \in Range(tables)}
    \cup UNION {UNION {{<<lower(a), lower(c)>> :
                          c \in referenced_columns(schema, t)} :
                       a \in {b \in DOMAIN aliases :
                                aliases[b] = LastPart(t) \/ <<aliases[b]>> = t}} :
                t \in Range(tables)}
    \cup UNION {{<<lower(a), c>> : c \in cte_columns[lower(a)]} :
                   a \in {b \in cte_aliases(aliases) : lower(b) \in DOMAIN cte_columns}}
    \cup UNION {{<<lower(a), lower(c)>> :
                    c \in get_table(schema, <<aliases[a]>>).columns} :
                   a \in DOMAIN aliases \ cte_aliases(aliases)}

\* some table of the schema has a column of that (lower-case) name
in_some_table(schema, col_part) ==
    \E t \in DOMAIN schema.tables : \E c \in schema.tables[t] : lower(c) = col_part

\* the loop body of _detect_phantom_columns: is this column reported?
is_phantom_column(col, tables, aliases, schema, select_aliases, cte_columns) ==
    LET col_lower == LowerName(col)
        qualified == Len(col) > 1
        table_part == lower(col[1])
        col_part == lower(LastPart(col))
        vc == valid_columns(tables, aliases, schema, select_aliases, cte_columns)
        vq == valid_qualified(tables, aliases, schema, cte_columns)
        known_cte_column ==
            table_part \in DOMAIN cte_columns /\ col_part \in cte_columns[table_part]
        matching == {a \in DOMAIN aliases : lower(a) = table_part}
        unknown_cte_alias ==
            /\ matching # {}
            /\ aliases[CHOOSE a \in matching : TRUE] \in CteMarkers
            /\ table_part \notin DOMAIN cte_columns
    IN IF ~qualified
       THEN /\ col_lower[1] \notin select_aliases
            /\ col_lower[1] \notin vc
            /\ ~in_some_table(schema, col_part)
       ELSE /\ col_lower \notin vq
            /\ ~known_cte_column
            /\ ~unknown_cte_alias
            /\ ~in_some_table(schema, col_part)
            /\ col_part \notin select_aliases \cup vc

\* HallucinationDetector._detect_phantom_columns
detect_phantom_columns(columns, tables, aliases, schema, select_aliases, cte_columns) ==
    SelectSeq(columns, LAMBDA col :
        is_phantom_column(col, tables, aliases, schema, select_aliases, cte_columns))

\* The function names of the model: the keys and the values of the alias
\* table of _is_function_alias, SAFE_DIVIDE, COUNT and two of the names the
\* parser gives to AST nodes that are no function call
FunctionNames ==
    {"LEN", "LENGTH", "SUBSTR", "SUBSTRING", "CHARINDEX", "POSITION", "INSTR",
     "ISNULL", "IFNULL", "COALESCE", "NVL", "GETDATE", "NOW",
     "CURRENT_TIMESTAMP", "DATEPART", "EXTRACT", "DATE_PART", "DATEDIFF",
     "DATE_DIFF", "TIMESTAMPDIFF", "DATEADD", "DATE_ADD", "TIMESTAMPADD",
     "INT", "INTEGER", "CAST", "VARCHAR", "TEXT", "STRING", "SAFE_DIVIDE",
     "COUNT", "ANONYMOUS", "STAR"}

\* DIALECT_CONFIGS[d].builtin_functions, the members among FunctionNames
builtin_functions(dialect) ==
    CASE dialect = "sqlite" ->
           {"CAST", "COALESCE", "COUNT", "CURRENT_TIMESTAMP", "IFNULL", "INSTR",
            "LENGTH", "SUBSTR", "SUBSTRING"}
      [] dialect = "duckdb" ->
           {"CAST", "COALESCE", "COUNT", "CURRENT_TIMESTAMP", "DATE_ADD",
            "DATE_DIFF", "DATE_PART", "EXTRACT", "IFNULL", "INSTR", "LEN",
            "LENGTH", "NOW", "NVL", "SUBSTR", "SUBSTRING"}
      [] dialect = "bigquery" ->
           {"CAST", "COALESCE", "COUNT", "CURRENT_TIMESTAMP", "DATE_ADD",
            "DATE_DIFF", "EXTRACT", "IFNULL", "INSTR", "LENGTH", "SAFE_DIVIDE",
            "STRING", "SUBSTR", "SUBSTRING"}
      [] dialect = "postgresql" ->
           {"CAST", "COALESCE", "COUNT", "CURRENT_TIMESTAMP", "DATE_PART",
            "EXTRACT", "LENGTH", "NOW", "POSITION", "SUBSTR", "SUBSTRING"}
      [] dialect = "snowflake" ->
           {"CAST", "CHARINDEX", "COALESCE", "COUNT", "CURRENT_TIMESTAMP",
            "DATEADD", "DATEDIFF", "DATE_PART", "EXTRACT", "GETDATE", "IFNULL",
            "LEN", "LENGTH", "NVL", "POSITION", "SUBSTR", "SUBSTRING",
            "TIMESTAMPADD", "TIMESTAMPDIFF"}
      [] OTHER -> {}

\* skip_names of _detect_phantom_functions
skip_names ==
    {"ANONYMOUS", "PAREN", "BRACKET", "SUBQUERY", "PLACEHOLDER", "LITERAL", "STAR"}

\* the alias table of _is_function_alias
function_aliases ==
    [f \in {"LEN", "SUBSTR", "CHARINDEX", "ISNULL", "NVL", "GETDATE", "DATEPART",
            "DATEDIFF", "DATEADD", "INT", "VARCHAR"} |->
        CASE f = "LEN" -> {"LENGTH"}
          [] f = "SUBSTR" -> {"SUBSTRING"}
          [] f = "CHARINDEX" -> {"POSITION", "INSTR"}
          [] f = "ISNULL" -> {"IFNULL", "COALESCE", "NVL"}
          [] f = "NVL" -> {"IFNULL", "COALESCE"}
          [] f = "GETDATE" -> {"NOW", "CURRENT_TIMESTAMP"}
          [] f = "DATEPART" -> {"EXTRACT", "DATE_PART"}
          [] f = "DATEDIFF" -> {"DATE_DIFF", "TIMESTAMPDIFF"}
          [] f = "DATEADD" -> {"DATE_ADD", "TIMESTAMPADD"}
          [] f = "INT" -> {"INTEGER", "CAST"}
          [] f = "VARCHAR" -> {"TEXT", "STRING"}]

\* HallucinationDetector._is_function_alias
is_function_alias(func, valid_functions) ==
    func \in DOMAIN function_aliases
        /\ function_aliases[func] \cap valid_functions # {}

\* HallucinationDetector._detect_phantom_functions; a dialect the registry
\* does not hold makes get_dialect_config raise, and nothing is reported
detect_phantom_functions(functions, dialect) ==
    IF dialect \notin RegistryDialects THEN <<>>
    ELSE SelectSeq(functions, LAMBDA func :
            /\ upper(func) \notin skip_names
            /\ upper(func) \notin builtin_functions(dialect)
            /\ ~is_function_alias(upper(func), builtin_functions(dialect)))

\* HallucinationReport; hallucination_score in ten-thousandths, as
\* round(score, 4) leaves it
HallucinationReport(phantom_tables, phantom_columns, phantom_functions, score) ==
    [phantom_tables |-> phantom_tables, phantom_columns |-> phantom_columns,
     phantom_functions |-> phantom_functions, hallucination_score |-> score]

\* HallucinationDetector.detect on the parsed query
detect(sql, schema, dialect) ==
    IF ~sql.is_valid THEN HallucinationReport(<<>>, <<>>, <<>>, 10000)
    ELSE LET pt == detect_phantom_tables(sql.tables, sql.aliases, schema)
             pc == detect_phantom_columns(sql.columns, sql.tables, sql.aliases,
                                          schema, sql.select_aliases,
                                          sql.cte_columns)
             pf == detect_phantom_functions(sql.functions, dialect)
             total_identifiers ==
                 Len(sql.tables) + Len(sql.columns) + Len(sql.functions)
             total_phantoms == Len(pt) + Len(pc) + Len(pf)
             n == Max(1, total_identifiers)
         IN HallucinationReport(pt, pc, pf, (20000 * total_phantoms + n) \div (2 * n))

\* The parsed queries of the model -----------------------------------------
NoAliases == [a \in {} |-> ""]
NoCteColumns == [n \in {} |-> {}]

ParsedQuery(tables, columns, functions, aliases, select_aliases, cte_columns) ==
    [is_valid |-> TRUE, tables |-> tables, columns |-> columns,
     functions |-> functions, aliases |-> aliases,
     select_aliases |-> select_aliases, cte_columns |-> cte_columns]

\* a text no reader parses: parse returns is_valid = false, no identifiers
Unparsed ==
    [is_valid |-> FALSE, tables |-> <<>>, columns |-> <<>>, functions |-> <<>>,
     aliases |-> NoAliases, select_aliases |-> {}, cte_columns |-> NoCteColumns]

\* the function calls of a query, as the parser names them
FunctionLists ==
    {<<>>, <<"COUNT", "NOW">>}
    \cup {<<f>> : f \in FunctionNames \cup {"count", "now", "ifnull"}}

\* SELECT f(c) FROM t
PlainQueries ==
    {ParsedQuery(<<t>>, <<c>>, f, NoAliases, {}, NoCteColumns) :
        t \in {<<"users">>, <<"USERS">>, <<"ghost">>, <<"GHOST">>,
               <<"main", "users">>, <<"MAIN", "USERS">>, <<"main", "ghost">>},
        c \in {<<"id">>, <<"ID">>, <<"nocol">>, <<"total">>},
        f \in FunctionLists}

\* SELECT f(x.c) FROM t AS x, the qualifier spelled q
AliasQueries ==
    {ParsedQuery(<<t>>, <<<<q, c>>>>, f, "x" :> LastPart(t), {}, NoCteColumns) :
        t \in {<<"users">>, <<"USERS">>, <<"ghost">>, <<"main", "users">>},
        q \in {"x", "X"}, c \in {"id", "NOCOL", "total"},
        f \in FunctionLists}

\* WITH d AS (SELECT 1 AS a) SELECT f(c) FROM r, where d and r spell the same
\* name; the parser lower-cases the select aliases and the CTE columns
CteQueries ==
    {ParsedQuery(<<<<r>>>>, <<c>>, f, d :> "(cte)", {"a"}, lower(d) :> {"a"}) :
        d \in {"m", "M"}, r \in {"m", "M"},
        c \in {<<"a">>, <<"A">>, <<"m", "a">>, <<"m", "id">>},
        f \in FunctionLists}

ParsedQueries == {Unparsed} \cup PlainQueries \cup AliasQueries \cup CteQueries

\* the dialects of the registry and one only sqlglot knows
DetectorDialects == RegistryDialects \cup {"tsql"}

\* The same query and schema with every identifier (table names, column
\* names, table aliases, CTE names) in upper or in lower case
RecaseQuery(sql, up) ==
    LET f(p) == IF up THEN upper(p) ELSE lower(p)
        g(n) == [i \in DOMAIN n |-> f(n[i])]
    IN [sql EXCEPT
          !.tables = [i \in DOMAIN @ |-> g(@[i])],
          !.columns = [i \in DOMAIN @ |-> g(@[i])],
          !.aliases = [k \in {f(a) : a \in DOMAIN @} |->
                          LET a == CHOOSE b \in DOMAIN @ : f(b) = k
                          IN IF @[a] \in CteMarkers THEN @[a] ELSE f(@[a])]]

RecaseSchema(schema, up) ==
    LET f(p) == IF up THEN upper(p) ELSE lower(p)
        g(n) == [i \in DOMAIN n |-> f(n[i])]
    IN [tables |-> [k \in {g(t) : t \in DOMAIN schema.tables} |->
                       {f(c) : c \in schema.tables[
                                  CHOOSE t \in DOMAIN schema.tables : g(t) = k]}]]

NoReport == HallucinationReport(<<>>, <<>>, <<>>, 0)

InitDetector ==
    /\ detector \in {[pc |-> "ready", sql |-> q, schema |-> sc, dialect |-> d,
                      report |-> NoReport, before |-> NoReport,
                      recased |-> FALSE] :
                        q \in ParsedQueries, sc \in SchemaSnapshots,
                        d \in DetectorDialects}
    /\ agent = Idle /\ scorer = Idle /\ server = Idle /\ parser = Idle
    /\ adapter = Idle /\ manager = Idle

\* HallucinationDetector.detect
DetectorDetect ==
    /\ detector.pc = "ready"
    /\ detector' = [detector EXCEPT
                      !.pc = "reported",
                      !.report = detect(detector.sql, detector.schema,
                                        detector.dialect)]
    /\ UNCHANGED <<agent, scorer, server, parser, adapter, manager>>

\* the caller recases the identifiers of the text and of the schema, and
\* keeps the report of the first call
DetectorRecase ==
    /\ detector.pc = "reported"
    /\ ~detector.recased
    /\ \E up \in BOOLEAN :
        detector' = [detector EXCEPT
                       !.pc = "ready",
                       !.sql = RecaseQuery(@, up),
                       !.schema = RecaseSchema(@, up),
                       !.before = detector.report,
                       !.recased = TRUE]
    /\ UNCHANGED <<agent, scorer, server, parser, adapter, manager>>

NextDetector == DetectorDetect \/ DetectorRecase

SpecDetector == InitDetector /\ [][NextDetector]_vars

\* C7: every identifier detect lists in phantom_tables is absent from the
\* schema: neither its full written form nor its last dotted component
\* satisfies has_table.
C7_PhantomTablesAbsentFromSchema ==
    detector.pc = "reported" =>
        \A i \in DOMAIN detector.report.phantom_tables :
            LET t == detector.report.phantom_tables[i]
            IN /\ ~has_table(detector.schema, t)
               /\ ~has_table(detector.schema, <<LastPart(t)>>)

\* a qualified name was reported phantom against a schema that holds tables
C7_Witness ==
    /\ detector.pc = "reported"
    /\ DOMAIN detector.schema.tables # {}
    /\ \E i \in DOMAIN detector.report.phantom_tables :
          Len(detector.report.phantom_tables[i]) > 1

\* C9: recasing the identifiers uniformly in the query and in the schema
\* changes neither the identifiers reported phantom (compared without
\* case) nor the hallucination score.
C9_ReportUnchangedByRecasing ==
    (detector.pc = "reported" /\ detector.recased) =>
        LET now == detector.report
            was == detector.before
            names(seq) == [i \in DOMAIN seq |-> LowerName(seq[i])]
        IN /\ names(now.phantom_tables) = names(was.phantom_tables)
           /\ names(now.phantom_columns) = names(was.phantom_columns)
           /\ now.phantom_functions = was.phantom_functions
           /\ now.hallucination_score = was.hallucination_score

\* the alias table of _is_function_alias read in either direction
Linked(f, g) ==
    \/ f \in DOMAIN function_aliases /\ g \in function_aliases[f]
    \/ g \in DOMAIN function_aliases /\ f \in function_aliases[g]

\* C10: for a dialect of the registry, a function call of the parsed query
\* is listed in phantom_functions if and only if its upper-cased name is
\* neither in the dialect's built-in set nor linked by the alias table, in
\* either direction, to a member of that set.
C10_PhantomFunctionIffNotBuiltinNorAlias ==
    (detector.pc = "reported" /\ detector.sql.is_valid
        /\ detector.dialect \in RegistryDialects) =>
        \A i \in DOMAIN detector.sql.functions :
            LET func == detector.sql.functions[i]
                valid == builtin_functions(detector.dialect)
            IN upper(func) \notin skip_names =>
                 (func \in Range(detector.report.phantom_functions)
                    <=> /\ upper(func) \notin valid
                        /\ ~\E g \in valid : Linked(upper(func), g))

(***************************************************************************)
(* The engine adapters (src/agentx/infrastructure/database.py):            *)
(* SQLiteAdapter, DuckDBAdapter and PostgreSQLAdapter.                     *)
(*                                                                         *)
(* A connection is a positive number, 0 is None; `open` holds the          *)
(* connections this adapter opened and nobody closed.  A statement is      *)
(* what the engine does with it: return rows, return none, or raise with a *)
(* message, after a number of seconds.  Time passes in ticks while the     *)
(* adapter waits in conn.execute.                                          *)
(***************************************************************************)
MaxConnections == 3
MaxDuration == 40
TickSeconds == 10

\* Settings.query_timeout (core/config.py), in seconds
query_timeout == 30

AdapterVariants == {"sqlite", "duckdb", "postgresql"}

Statements ==
    [kind : {"rows", "norows", "error"}, duration : {0, 20, MaxDuration}]

\* the message of the engine for the failing statement
EngineMessage == "no such table: ghost"

NoError == [given |-> FALSE, wrapped |-> FALSE, message |-> ""]

\* str(e): sqlite3 and duckdb exceptions print the engine's message; the
\* SQLAlchemy exception of the PostgreSQL adapter prints it wrapped as
\* "(psycopg2.errors.X) <message> [SQL: ...] (Background on this error ...)"
ErrorText(variant, message) ==
    [given |-> TRUE, wrapped |-> variant = "postgresql", message |-> message]

\* what a call left behind: nothing yet, a returned value, or an exception
NoOutcome ==
    [call |-> "none", kind |-> "none", success |-> FALSE, rows |-> 0,
     execution_time_ms |-> 0, error |-> NoError]

Returned(call) == [NoOutcome EXCEPT !.call = call, !.kind = "returned"]

RaisedFrom(call) == [NoOutcome EXCEPT !.call = call, !.kind = "raised"]

\* ExecutionResult of the adapters' execute
AdapterResult(variant, stmt, elapsed) ==
    [call |-> "execute", kind |-> "returned",
     success |-> stmt.kind # "error",
     rows |-> IF stmt.kind = "rows" THEN 2 ELSE 0,
     execution_time_ms |-> elapsed * 1000,
     error |-> IF stmt.kind = "error" THEN ErrorText(variant, EngineMessage)
               ELSE NoError]

InitAdapter ==
    /\ adapter \in {[variant |-> v, conn |-> 0, engine |-> 0, open |-> {},
                     next |-> 1, pc |-> "idle", stmt |-> st, elapsed |-> 0,
                     last |-> NoOutcome] :
                        v \in AdapterVariants,
                        st \in {[kind |-> "rows", duration |-> 0]}}
    /\ agent = Idle /\ scorer = Idle /\ server = Idle /\ parser = Idle
    /\ detector = Idle /\ manager = Idle

\* connect() with the outcome of the driver: a new connection replaces
\* self.conn (the one it held is not closed), or the driver raises.
\* PostgreSQLAdapter assigns self.engine before engine.connect() can raise.
connect(a, ok) ==
    IF ok
    THEN [a EXCEPT !.conn = a.next, !.open = @ \cup {a.next}, !.next = @ + 1,
                   !.engine = IF a.variant = "postgresql" THEN a.next ELSE @]
    ELSE [a EXCEPT !.next = @ + 1,
                   !.engine = IF a.variant = "postgresql" THEN a.next ELSE @]

AdapterConnect ==
    /\ adapter.pc = "idle"
    /\ adapter.next <= MaxConnections
    /\ \E ok \in BOOLEAN :
        adapter' = [connect(adapter, ok) EXCEPT
                      !.last = IF ok THEN Returned("connect")
                               ELSE RaisedFrom("connect")]
    /\ UNCHANGED <<agent, scorer, server, parser, detector, manager>>

\* close(): closes self.conn if there is one (and disposes the engine)
AdapterClose ==
    /\ adapter.pc = "idle"
    /\ adapter' = [adapter EXCEPT !.open = @ \ {adapter.conn}, !.conn = 0,
                                  !.engine = 0, !.last = Returned("close")]
    /\ UNCHANGED <<agent, scorer, server, parser, detector, manager>>

\* get_schema_snapshot(): connects first when there is no connection (the
\* PostgreSQL adapter: when there is no engine)
AdapterGetSchemaSnapshot ==
    /\ adapter.pc = "idle"
    /\ LET missing == IF adapter.variant = "postgresql" THEN adapter.engine = 0
                      ELSE adapter.conn = 0
       IN IF missing
          THEN /\ adapter.next <= MaxConnections
               /\ \E ok \in BOOLEAN :
                   adapter' = [connect(adapter, ok) EXCEPT
                       !.last = IF ok THEN Returned("get_schema_snapshot")
                                ELSE RaisedFrom("get_schema_snapshot")]
          ELSE adapter' = [adapter EXCEPT
                              !.last = Returned("get_schema_snapshot")]
    /\ UNCHANGED <<agent, scorer, server, parser, detector, manager>>

\* execute(sql) up to conn.execute: `if not self.conn: self.connect()` stands
\* before the try, so an exception of connect leaves execute
AdapterExecute ==
    /\ adapter.pc = "idle"
    /\ \E st \in Statements :
        IF adapter.conn = 0
        THEN /\ adapter.next <= MaxConnections
             /\ \E ok \in BOOLEAN :
                 adapter' =
                    IF ok
                    THEN [connect(adapter, TRUE) EXCEPT
                            !.pc = "running", !.stmt = st, !.elapsed = 0,
                            !.last = NoOutcome]
                    ELSE [connect(adapter, FALSE) EXCEPT
                            !.last = RaisedFrom("execute")]
        ELSE adapter' = [adapter EXCEPT !.pc = "running", !.stmt = st,
                                        !.elapsed = 0, !.last = NoOutcome]
    /\ UNCHANGED <<agent, scorer, server, parser, detector, manager>>

\* the engine works on the statement; execute waits in conn.execute(sql)
AdapterEngineTick ==
    /\ adapter.pc = "running"
    /\ adapter.elapsed < adapter.stmt.duration
    /\ adapter' = [adapter EXCEPT
                     !.elapsed = Min(adapter.stmt.duration, @ + TickSeconds)]
    /\ UNCHANGED <<agent, scorer, server, parser, detector, manager>>

\* the engine is done: execute builds the ExecutionResult and returns
AdapterExecuteReturn ==
    /\ adapter.pc = "running"
    /\ adapter.elapsed = adapter.stmt.duration
    /\ adapter' = [adapter EXCEPT
                     !.pc = "idle",
                     !.last = AdapterResult(adapter.variant, adapter.stmt,
                                            adapter.elapsed)]
    /\ UNCHANGED <<agent, scorer, server, parser, detector, manager>>

NextAdapter ==
    \/ AdapterConnect \/ AdapterClose \/ AdapterGetSchemaSnapshot
    \/ AdapterExecute \/ AdapterEngineTick \/ AdapterExecuteReturn

SpecAdapter == InitAdapter /\ [][NextAdapter]_vars

\* C11: in every adapter state execute(sql) returns an ExecutionResult; a
\* failing statement gives success = false, the engine's message as error
\* and no rows; execution_time_ms is recorded on both paths.
C11_ExecuteAlwaysReturnsResult ==
    adapter.last.call = "execute" =>
        /\ adapter.last.kind = "returned"
        /\ adapter.last.execution_time_ms = adapter.elapsed * 1000
        /\ adapter.stmt.kind = "error" =>
             /\ ~adapter.last.success
             /\ adapter.last.rows = 0
             /\ adapter.last.error.given
             /\ adapter.last.error.message = EngineMessage
             /\ ~adapter.last.error.wrapped
        /\ adapter.stmt.kind # "error" =>
             adapter.last.success /\ ~adapter.last.error.given

\* C12: the adapter holds at most one open connection, the one in
\* self.conn; after close() none of the connections it opened is open.
C12_AtMostOneOpenConnection ==
    /\ Cardinality(adapter.open) <= 1
    /\ adapter.open \subseteq {adapter.conn}
    /\ adapter.last.call = "close" => adapter.open = {}

\* C13: a statement never keeps execute waiting longer than query_timeout,
\* and no result reports a longer execution as a success.
C13_ExecuteBoundedByQueryTimeout ==
    /\ adapter.pc = "running" => adapter.elapsed <= query_timeout
    /\ (adapter.last.call = "execute" /\ adapter.last.kind = "returned"
        /\ adapter.last.execution_time_ms > query_timeout * 1000)
            => ~adapter.last.success

(***************************************************************************)
(* The row limit of SQLAgent.execute_in_sandbox (sql_agent.py).            *)
(*                                                                         *)
(* A statement is described by what _add_limit can see of it: whether      *)
(* sqlglot parses it, whether the tree holds a Limit node at the top level *)
(* or inside a subquery, whether the text holds the letters "limit", and   *)
(* whether it ends in a semicolon; rowReturning says what the engine does  *)
(* with it.                                                                *)
(***************************************************************************)
LimitStatements ==
    {s \in [rowReturning : BOOLEAN, parses : BOOLEAN, topLimit : BOOLEAN,
            nestedLimit : BOOLEAN, limitWord : BOOLEAN, semicolon : BOOLEAN] :
        (s.topLimit \/ s.nestedLimit) => s.limitWord}

LimitValues == {0, 1, 100}

NoLimit == [given |-> FALSE, n |-> 0]

\* SQLAgent._add_limit: the statement to send, as the submitted text (with
\* or without its trailing semicolon) and the LIMIT appended to it.
\* parsed.find(exp.Limit) finds a Limit node anywhere in the tree.
limited_sql(s, limit) ==
    LET existing_limit == IF s.parses THEN s.topLimit \/ s.nestedLimit
                          ELSE s.limitWord
    IN IF existing_limit
       THEN [semicolon |-> s.semicolon, limit |-> NoLimit]
       ELSE [semicolon |-> FALSE, limit |-> [given |-> TRUE, n |-> limit]]

InitLimit ==
    /\ agent \in {[pc |-> "input", sql |-> s, limit |-> l,
                   sent |-> [semicolon |-> s.semicolon, limit |-> NoLimit]] :
                      s \in LimitStatements, l \in LimitValues}
    /\ scorer = Idle /\ server = Idle /\ parser = Idle /\ detector = Idle
    /\ adapter = Idle /\ manager = Idle

\* execute_in_sandbox(sql, limit) up to conn.execute(text(limited_sql))
LimitExecuteInSandbox ==
    /\ agent.pc = "input"
    /\ agent' = [agent EXCEPT !.pc = "sent",
                              !.sent = limited_sql(agent.sql, agent.limit)]
    /\ UNCHANGED <<scorer, server, parser, detector, adapter, manager>>

NextLimit == LimitExecuteInSandbox

SpecLimit == InitLimit /\ [][NextLimit]_vars

\* C14: the statement sent carries an appended LIMIT max_rows exactly when
\* the top-level statement is row-returning, has no limit of its own and
\* max_rows > 0; otherwise it is the submitted statement unchanged.
C14_LimitAppendedIffNeeded ==
    agent.pc = "sent" =>
        LET needed == /\ agent.sql.rowReturning
                      /\ ~agent.sql.topLimit
                      /\ agent.limit > 0
        IN /\ agent.sent.limit.given <=> needed
           /\ agent.sent.limit.given => agent.sent.limit.n = agent.limit
           /\ ~agent.sent.limit.given =>
                 agent.sent.semicolon = agent.sql.semicolon

(***************************************************************************)
(* Construction of a scorer: create_enhanced_scorer(preset, **kwargs) and  *)
(* EnhancedScorer.__init__(weights).                                       *)
(***************************************************************************)
PresetNames == {"default", "strict", "performance", "quality", "lenient"}

\* presets.get(preset, presets["default"])
PresetNamed(name) ==
    CASE name = "strict" -> PresetStrict
      [] name = "performance" -> PresetPerformance
      [] name = "quality" -> PresetQuality
      [] OTHER -> DEFAULT_WEIGHTS

\* weight maps a caller may pass as weights=...: any dictionary over the
\* dimensions or over some of them, whatever its values add up to
ExplicitWeights ==
    [Dimensions -> {0, 500}] \cup CustomWeights
        \cup {[d \in {"correctness", "safety"} |-> 300]}

\* sum(self.weights.values()), in thousandths
WeightSum(w) ==
    WeightOf(w, "correctness") + WeightOf(w, "efficiency")
  + WeightOf(w, "safety") + WeightOf(w, "result_completeness")
  + WeightOf(w, "semantic_accuracy") + WeightOf(w, "best_practices")
  + WeightOf(w, "plan_quality")

\* create_enhanced_scorer: config = presets.get(...).copy();
\* config.update(kwargs); EnhancedScorer(**config)
create_enhanced_scorer(preset, kwargs) ==
    InitWeights(IF kwargs.given THEN kwargs.weights ELSE PresetNamed(preset))

InitCreate ==
    /\ scorer \in {[pc |-> "new", preset |-> n, kwargs |-> k,
                    weights |-> NoWeights] :
                      n \in PresetNames,
                      k \in {[given |-> FALSE, weights |-> NoWeights]} \cup
                            {[given |-> TRUE, weights |-> w] :
                                w \in ExplicitWeights \cup {NoWeights}}}
    /\ agent = Idle /\ server = Idle /\ parser = Idle /\ detector = Idle
    /\ adapter = Idle /\ manager = Idle

\* the constructor returns a scorer for every argument: it has no check
ScorerCreate ==
    /\ scorer.pc = "new"
    /\ scorer' = [scorer EXCEPT
                    !.pc = "constructed",
                    !.weights = create_enhanced_scorer(scorer.preset,
                                                       scorer.kwargs)]
    /\ UNCHANGED <<agent, server, parser, detector, adapter, manager>>

NextCreate == ScorerCreate

SpecCreate == InitCreate /\ [][NextCreate]_vars

\* C15: the weights of every constructed scorer sum to 1.0 (a map that
\* does not is not accepted).
C15_WeightsSumToOne ==
    scorer.pc = "constructed" => WeightSum(scorer.weights) = 1000

(***************************************************************************)
(* Efficiency against execution time: AdaptivePerformanceScorer and        *)
(* EnhancedScorer._compute_efficiency, measured repeatedly in one context  *)
(* (complexity level, dialect, row estimate).                              *)
(***************************************************************************)
ComplexityLevels == {"simple", "moderate", "complex", "very_complex", "other"}

EfficiencyDialects ==
    {"sqlite", "duckdb", "postgresql", "mysql", "bigquery", "snowflake",
     "oracle"}

\* row estimates: none, and numbers whose log10(n / 1000) is whole
RowEstimates ==
    {[given |-> FALSE, n |-> 0]} \cup
    {[given |-> TRUE, n |-> n] : n \in {500, 1000, 10000}}

\* row_mult of get_thresholds: math.log10(row_estimate / 1000) + 1 above
\* 1000 rows, no adjustment otherwise
row_mult(row_estimate) ==
    IF row_estimate.given /\ row_estimate.n > 1000
    THEN CASE row_estimate.n = 10000 -> 2
           [] row_estimate.n = 100000 -> 3
    ELSE 1

\* AdaptivePerformanceScorer.get_thresholds with its row estimate; the
\* legacy thresholds of _compute_efficiency when use_adaptive_thresholds is
\* off.  In tenths of a millisecond.
thresholds_used(adaptive, level, dialect, row_estimate) ==
    IF adaptive
    THEN LET th == get_thresholds(level, dialect)
             r == row_mult(row_estimate)
         IN [excellent |-> th.excellent * r, good |-> th.good * r,
             acceptable |-> th.acceptable * r]
    ELSE [excellent |-> 100, good |-> 1000, acceptable |-> 10000]

\* execution times to measure, in milliseconds: at, between and around the
\* thresholds, and far beyond the acceptable one
TimesAround(th) ==
    LET e == th.excellent \div 10
        g == th.good \div 10
        a == th.acceptable \div 10
    IN {0, e - 1, e, e + 1, (e + g) \div 2, g, g + 1, (g + a) \div 2, a,
        a + 1, 3 * a, 6 * a, 6 * a + 1, 12 * a}

NoMeasure == [given |-> FALSE, time_ms |-> 0, score |-> 0]

InitEfficiency ==
    /\ scorer \in {[pc |-> "ready", adaptive |-> ad, level |-> l,
                    dialect |-> d, rows |-> r, prev |-> NoMeasure,
                    last |-> NoMeasure] :
                      ad \in BOOLEAN, l \in ComplexityLevels,
                      d \in EfficiencyDialects, r \in RowEstimates}
    /\ agent = Idle /\ server = Idle /\ parser = Idle /\ detector = Idle
    /\ adapter = Idle /\ manager = Idle

\* _compute_efficiency for a successful execution that took time_ms
EfficiencyScore ==
    /\ scorer.pc = "ready"
    /\ LET th == thresholds_used(scorer.adaptive, scorer.level,
                                 scorer.dialect, scorer.rows)
       IN \E time_ms \in TimesAround(th) :
            scorer' = [scorer EXCEPT
                !.prev = scorer.last,
                !.last = [given |-> TRUE, time_ms |-> time_ms,
                          score |-> performance_score(time_ms, th)]]
    /\ UNCHANGED <<agent, server, parser, detector, adapter, manager>>

NextEfficiency == EfficiencyScore

SpecEfficiency == InitEfficiency /\ [][NextEfficiency]_vars

\* C16: in one context a longer execution never scores higher; the score
\* is 1.0 up to the excellent threshold, 0.8 at the good one, 0.5 at the
\* acceptable one, and at most 0.5 and at least 0 beyond it.
C16_EfficiencyMonotoneInTime ==
    LET th == thresholds_used(scorer.adaptive, scorer.level, scorer.dialect,
                              scorer.rows)
        t == 10 * scorer.last.time_ms
    IN scorer.last.given =>
        /\ (scorer.prev.given /\ scorer.prev.time_ms <= scorer.last.time_ms)
              => scorer.last.score <= scorer.prev.score
        /\ t <= th.excellent => scorer.last.score = 1000
        /\ t = th.good => scorer.last.score = 800
        /\ t = th.acceptable => scorer.last.score = 500
        /\ t > th.acceptable =>
              scorer.last.score <= 500 /\ scorer.last.score >= 0

\* two measurements in one context, the later one slower and scored lower,
\* crossing the acceptable threshold
C16_Witness ==
    /\ scorer.pc = "ready" /\ scorer.prev.given /\ scorer.last.given
    /\ scorer.prev.time_ms < scorer.last.time_ms
    /\ scorer.prev.score = 800
    /\ scorer.last.score < 500 /\ scorer.last.score > 0

(***************************************************************************)
(* Best practices before and after SELECT * is replaced by a column list.  *)
(*                                                                         *)
(* SQLBestPracticesScorer.score searches the text of the query, so a       *)
(* column list counts by the letters it brings: "id, name" brings nothing, *)
(* "valid_from vf, id" matches FROM\s+\w+\s*,\s*\w+, "join_date" holds     *)
(* JOIN, "somewhere" holds WHERE, "distinct_id" holds DISTINCT.            *)
(***************************************************************************)
StarQueries ==
    [star : {TRUE}, comma : BOOLEAN, joinWord : BOOLEAN, whereWord : BOOLEAN,
     exempt : BOOLEAN, distinct : BOOLEAN, groupBy : BOOLEAN]

ColumnLists ==
    {[comma |-> c, joinWord |-> j, whereWord |-> w, distinct |-> d] :
        <<c, j, w, d>> \in {<<FALSE, FALSE, FALSE, FALSE>>,
                            <<TRUE, FALSE, FALSE, FALSE>>,
                            <<FALSE, TRUE, FALSE, FALSE>>,
                            <<FALSE, FALSE, TRUE, FALSE>>,
                            <<FALSE, FALSE, FALSE, TRUE>>}}

\* the text with the column list in the place of the star
replace_star(f, cols) ==
    [f EXCEPT !.star = FALSE,
              !.comma = @ \/ cols.comma,
              !.joinWord = @ \/ cols.joinWord,
              !.whereWord = @ \/ cols.whereWord,
              !.distinct = @ \/ cols.distinct]

InitPractices ==
    /\ scorer \in {[pc |-> "new", sql |-> f, columns |-> c, before |-> 0,
                    after |-> 0] : f \in StarQueries, c \in ColumnLists}
    /\ agent = Idle /\ server = Idle /\ parser = Idle /\ detector = Idle
    /\ adapter = Idle /\ manager = Idle

\* score(sql) of the query with SELECT *
PracticesScore ==
    /\ scorer.pc = "new"
    /\ scorer' = [scorer EXCEPT !.pc = "scored",
                                !.before = best_practices_score(scorer.sql)]
    /\ UNCHANGED <<agent, server, parser, detector, adapter, manager>>

\* score(sql) of the same query with the column list for the star
PracticesRescore ==
    /\ scorer.pc = "scored"
    /\ scorer' = [scorer EXCEPT
                    !.pc = "rescored",
                    !.after = best_practices_score(
                                  replace_star(scorer.sql, scorer.columns))]
    /\ UNCHANGED <<agent, server, parser, detector, adapter, manager>>

NextPractices == PracticesScore \/ PracticesRescore

SpecPractices == InitPractices /\ [][NextPractices]_vars

\* C17: with a column list in the place of SELECT * the best_practices
\* score is not lower than before.
C17_RemovingStarNeverLowers ==
    scorer.pc = "rescored" => scorer.after >= scorer.before

(***************************************************************************)
(* DatabaseManager (src/agentx/infrastructure/database_manager.py).        *)
(*                                                                         *)
(* A pool is a positive number, 0 is None.  closes[p] counts the calls of  *)
(* close() on pool p; `next` is the number the next ConnectionPool gets.   *)
(* `last` records the last call: what it was, whether the manager was open *)
(* before it, how it ended, and whether it took a connection of the pool.  *)
(***************************************************************************)
MaxPools == 4

Pools == 1..MaxPools

NoCall ==
    [call |-> "none", was_open |-> FALSE, pool |-> 0, next |-> 1,
     kind |-> "none", error |-> "none", touched |-> FALSE]

\* is_open: self._is_open and self._pool is not None
is_open(m) == m.is_open_flag /\ m.pool # 0

\* a check that lets every manager through that ever built a pool
ensure_open_once_built(m) == m.next > 1

\* _ensure_open: TRUE when it returns, FALSE when it raises RuntimeError
ensure_open(m) == ~(~is_open(m) \/ m.pool = 0)

\* a call recorded with the state it found
Called(m, call, kind, error, touched) ==
    [call |-> call, was_open |-> is_open(m), pool |-> m.pool, next |-> m.next,
     kind |-> kind, error |-> error, touched |-> touched]

\* an open() that builds a pool whether or not one is open
open_always(m, outcome) ==
    CASE outcome = "pool_raises" -> m
      [] outcome = "check_fails" ->
            [m EXCEPT !.pool = 0, !.next = @ + 1,
                      !.closes[m.next] = @ + 1]
      [] OTHER ->
            [m EXCEPT !.pool = m.next, !.next = @ + 1, !.is_open_flag = TRUE]

\* an open() that keeps the pool whose connectivity check failed
open_keeping_failed_pool(m, outcome) ==
    IF m.is_open_flag THEN m
    ELSE CASE outcome = "pool_raises" -> m
           [] outcome = "check_fails" ->
                 [m EXCEPT !.pool = m.next, !.next = @ + 1]
           [] OTHER ->
                 [m EXCEPT !.pool = m.next, !.next = @ + 1,
                           !.is_open_flag = TRUE]

\* open() with what the database does: the pool is built and SELECT 1
\* passes; the pool is built and SELECT 1 fails; ConnectionPool(...) raises
open(m, outcome) ==
    IF m.is_open_flag THEN m
    ELSE CASE outcome = "pool_raises" -> m
           [] outcome = "check_fails" ->
                 [m EXCEPT !.pool = 0, !.next = @ + 1,
                           !.closes[m.next] = @ + 1]
           [] OTHER ->
                 [m EXCEPT !.pool = m.next, !.next = @ + 1,
                           !.is_open_flag = TRUE]

\* close()
close(m) ==
    IF m.pool # 0
    THEN [m EXCEPT !.closes[m.pool] = @ + 1, !.pool = 0,
                   !.is_open_flag = FALSE]
    ELSE [m EXCEPT !.is_open_flag = FALSE]

OpenOutcomes == {"ok", "check_fails", "pool_raises"}

InitManager ==
    /\ manager = [pc |-> "outside", pool |-> 0, is_open_flag |-> FALSE,
                  next |-> 1, closes |-> [p \in Pools |-> 0],
                  last |-> NoCall]
    /\ agent = Idle /\ scorer = Idle /\ server = Idle /\ parser = Idle
    /\ detector = Idle /\ adapter = Idle

\* the state after a call of open() (also as __enter__)
Opened(m, call, outcome) ==
    LET raises == ~m.is_open_flag /\ outcome # "ok"
    IN [open(m, outcome) EXCEPT
          !.last = Called(m, call, IF raises THEN "raised" ELSE "returned",
                          IF raises THEN "OperationalError" ELSE "none",
                          ~m.is_open_flag /\ outcome # "pool_raises")]

ManagerOpen ==
    /\ manager.next <= MaxPools
    /\ \E outcome \in OpenOutcomes :
         manager' = Opened(manager, "open", outcome)
    /\ UNCHANGED <<agent, scorer, server, parser, detector, adapter>>

ManagerClose ==
    /\ manager' = [close(manager) EXCEPT
                     !.last = Called(manager, "close", "returned", "none",
                                     manager.pool # 0)]
    /\ UNCHANGED <<agent, scorer, server, parser, detector, adapter>>

\* `with manager:` entered: __enter__ calls open(); when open() raises the
\* block is not entered
ManagerEnter ==
    /\ manager.pc = "outside"
    /\ manager.next <= MaxPools
    /\ \E outcome \in OpenOutcomes :
         LET m == Opened(manager, "__enter__", outcome)
         IN manager' = [m EXCEPT !.pc = IF m.last.kind = "returned"
                                         THEN "inside" ELSE "outside"]
    /\ UNCHANGED <<agent, scorer, server, parser, detector, adapter>>

\* the block is left: __exit__ calls close()
ManagerExit ==
    /\ manager.pc = "inside"
    /\ manager' = [close(manager) EXCEPT
                     !.pc = "outside",
                     !.last = Called(manager, "__exit__", "returned", "none",
                                     manager.pool # 0)]
    /\ UNCHANGED <<agent, scorer, server, parser, detector, adapter>>

\* execute, execute_many and `with connection()`: _ensure_open, the assert,
\* then self._pool.connection(); the statement may fail in the database
ManagerUse ==
    /\ \E call \in {"execute", "execute_many", "connection"},
          fails \in BOOLEAN :
         manager' = [manager EXCEPT !.last =
            IF ~ensure_open(manager)
            THEN Called(manager, call, "raised", "RuntimeError", FALSE)
            ELSE IF manager.pool = 0
            THEN Called(manager, call, "raised", "AssertionError", FALSE)
            ELSE IF fails
            THEN Called(manager, call, "raised", "DatabaseError", TRUE)
            ELSE Called(manager, call, "returned", "none", TRUE)]
    /\ UNCHANGED <<agent, scorer, server, parser, detector, adapter>>

NextManager ==
    \/ ManagerOpen \/ ManagerClose \/ ManagerEnter \/ ManagerExit
    \/ ManagerUse

SpecManager == InitManager /\ [][NextManager]_vars

Uses == {"execute", "execute_many", "connection"}

\* C18: while the pool is not open, execute, execute_many and connection
\* raise RuntimeError without taking a connection of any pool.
C18_UseRequiresOpen ==
    (manager.last.call \in Uses /\ ~manager.last.was_open) =>
        /\ manager.last.kind = "raised"
        /\ manager.last.error = "RuntimeError"
        /\ ~manager.last.touched

\* a use refused on a manager that was open before and has been closed
C18_Witness ==
    /\ manager.last.call = "execute_many" /\ ~manager.last.was_open
    /\ manager.last.kind = "raised"
    /\ manager.next > 1 /\ manager.pool = 0
    /\ \E p \in Pools : manager.closes[p] = 1

\* C19: open() on an open manager changes nothing and builds no pool; an
\* open() that succeeds on a closed one builds exactly one pool and leaves
\* is_open true; close() leaves is_open false and has closed the pool it
\* found once; no pool is closed twice.
C19_OpenIdempotentCloseOnce ==
    /\ \A p \in Pools : manager.closes[p] <= 1
    /\ (manager.last.call \in {"open", "__enter__"} /\ manager.last.was_open)
          => /\ manager.next = manager.last.next
             /\ manager.pool = manager.last.pool
             /\ is_open(manager)
    /\ (manager.last.call \in {"open", "__enter__"} /\ ~manager.last.was_open
        /\ manager.last.kind = "returned")
          => /\ manager.next = manager.last.next + 1
             /\ manager.pool = manager.last.next
             /\ manager.closes[manager.pool] = 0
             /\ is_open(manager)
    /\ manager.last.call \in {"close", "__exit__"}
          => /\ ~is_open(manager)
             /\ manager.pool = 0
             /\ manager.next = manager.last.next
             /\ manager.last.pool # 0 => manager.closes[manager.last.pool] = 1

\* open() called on a manager that a second open() found open
C19_Witness ==
    /\ manager.last.call = "open" /\ manager.last.was_open
    /\ manager.last.pool = 2 /\ manager.closes[1] = 1

(***************************************************************************)
(* Phantom tables, both directions (HallucinationDetector.detect).         *)
(***************************************************************************)
\* the table reference names a CTE or a subquery alias of the query; SQL
\* does not distinguish the letter case of unquoted names
NamesCteOrSubquery(sql, table) ==
    \E a \in cte_aliases(sql.aliases) : LowerName(<<a>>) = LowerName(table)

\* C20: a table reference of the parsed query is listed in phantom_tables
\* if and only if it names no CTE and no subquery alias of the query and
\* neither its last dotted component nor its full form is in the snapshot.
C20_PhantomTableIffUnknown ==
    (detector.pc = "reported" /\ detector.sql.is_valid) =>
        \A i \in DOMAIN detector.sql.tables :
            LET table == detector.sql.tables[i]
            IN table \in Range(detector.report.phantom_tables)
                 <=> /\ ~NamesCteOrSubquery(detector.sql, table)
                     /\ ~has_table(detector.schema, <<LastPart(table)>>)
                     /\ ~has_table(detector.schema, table)

(***************************************************************************)
(* Phantom columns of qualified references (HallucinationDetector.detect). *)
(***************************************************************************)
\* the aliases of the query that the qualifier x spells, whatever the case
AliasesNamed(sql, x) == {a \in DOMAIN sql.aliases : lower(a) = lower(x)}

\* x is an alias of the query for a table the schema holds
IsAliasOfRealTable(sql, schema, x) ==
    \E a \in AliasesNamed(sql, x) :
        /\ sql.aliases[a] \notin CteMarkers
        /\ get_table(schema, <<sql.aliases[a]>>).found

\* the lower-cased columns of the table the alias x stands for
ColumnsOfAlias(sql, schema, x) ==
    UNION {{lower(c) : c \in get_table(schema, <<sql.aliases[a]>>).columns} :
              a \in AliasesNamed(sql, x)}

\* C21: a reference x.c, x an alias for a table T of the schema, is listed
\* in phantom_columns if and only if T has no column c, whatever the other
\* tables of the schema hold.
C21_QualifiedColumnCheckedAgainstItsTable ==
    (detector.pc = "reported" /\ detector.sql.is_valid) =>
        \A i \in DOMAIN detector.sql.columns :
            LET col == detector.sql.columns[i]
            IN (Len(col) = 2
                /\ IsAliasOfRealTable(detector.sql, detector.schema, col[1]))
               => (col \in Range(detector.report.phantom_columns)
                   <=> lower(col[2]) \notin
                         ColumnsOfAlias(detector.sql, detector.schema, col[1]))

\* x is the name of a CTE or the alias of a subquery of the query
IsCteAlias(sql, x) ==
    \E a \in AliasesNamed(sql, x) : sql.aliases[a] \in CteMarkers

\* C22: a reference x.c, x a CTE or subquery alias: when the columns x
\* produces are known, x.c is listed in phantom_columns if and only if c is
\* not among them; when they are unknown, x.c is not listed.
C22_CteColumnCheckedAgainstCteColumns ==
    (detector.pc = "reported" /\ detector.sql.is_valid) =>
        \A i \in DOMAIN detector.sql.columns :
            LET col == detector.sql.columns[i]
                x == lower(col[1])
                listed == col \in Range(detector.report.phantom_columns)
            IN (Len(col) = 2 /\ IsCteAlias(detector.sql, col[1]))
               => IF x \in DOMAIN detector.sql.cte_columns
                  THEN listed <=>
                         lower(col[2]) \notin detector.sql.cte_columns[x]
                  ELSE ~listed

(***************************************************************************)
(* HallucinationDetector.validate: detect, then the phantom tables and     *)
(* columns as errors and the phantom functions as warnings.                *)
(***************************************************************************)
\* ValidationResult of validate
validate(sql, schema, dialect) ==
    LET report == detect(sql, schema, dialect)
        errors ==
            [i \in DOMAIN report.phantom_tables |->
                [kind |-> "table", name |-> report.phantom_tables[i]]]
            \o [i \in DOMAIN report.phantom_columns |->
                [kind |-> "column", name |-> report.phantom_columns[i]]]
    IN [is_valid |-> Len(errors) = 0, errors |-> errors,
        warnings |-> report.phantom_functions,
        hallucination_report |-> report]

DetectorValidate ==
    /\ detector.pc = "ready"
    /\ detector' = [pc |-> "validated", sql |-> detector.sql,
                    schema |-> detector.schema, dialect |-> detector.dialect,
                    report |-> detector.report, before |-> detector.before,
                    recased |-> detector.recased,
                    validation |-> validate(detector.sql, detector.schema,
                                            detector.dialect)]
    /\ UNCHANGED <<agent, scorer, server, parser, adapter, manager>>

NextValidate == DetectorValidate

SpecValidate == InitDetector /\ [][NextValidate]_vars

\* C23: for a text that parse reports with is_valid = false, validate
\* returns is_valid = false and at least one error.
C23_UnparseableNeverValid ==
    (detector.pc = "validated" /\ ~detector.sql.is_valid) =>
        /\ ~detector.validation.is_valid
        /\ Len(detector.validation.errors) >= 1

\* C24: the hallucination_score of detect is the number of phantom
\* identifiers over max(1, number of extracted identifiers) (to the four
\* decimals kept), lies in [0, 1], and is 0 exactly when nothing is
\* reported phantom.  Scores in ten-thousandths.
C24_ScoreIsPhantomRatio ==
    detector.pc = "reported" =>
        LET r == detector.report
            phantoms == Len(r.phantom_tables) + Len(r.phantom_columns)
                        + Len(r.phantom_functions)
            n == Max(1, Len(detector.sql.tables) + Len(detector.sql.columns)
                        + Len(detector.sql.functions))
            d == r.hallucination_score * n - 10000 * phantoms
        IN /\ 2 * d <= n /\ -2 * d <= n
           /\ r.hallucination_score >= 0 /\ r.hallucination_score <= 10000
           /\ r.hallucination_score = 0 <=> phantoms = 0

\* C25: safety is 0.4 times the validation score plus 0.6 times the
\* weighted hallucination score, the validation score being 1.0 for a valid
\* result whatever its warnings and 0.5, 0.3, 0.1 for an invalid one with
\* zero, one, two or more errors.  Scores in thousandths.
C25_SafetyFormula ==
    scorer.pc = "computed" =>
        LET er == scorer.er
            validation_score ==
                IF er.is_valid THEN 1000
                ELSE IF Len(er.validation_errors) = 0 THEN 500
                ELSE IF Len(er.validation_errors) = 1 THEN 300
                ELSE 100
        IN scorer.safety
             = (4 * validation_score + 6 * compute_safety(er).hallucination)
                  \div 10

\* C26: the best-practices score is 1.0 less the penalties of the rules
\* that fire, each charged once: SELECT * 0.1, no WHERE on a scanning
\* SELECT 0.05, implicit comma join 0.1, DISTINCT with GROUP BY 0.05;
\* clamped to [0, 1].  Scores in thousandths.
C26_EachRuleChargedOnce ==
    scorer.pc = "scored" =>
        LET f == scorer.sql
            charged == (IF f.star THEN 100 ELSE 0)
                     + (IF ~f.whereWord /\ ~f.exempt THEN 50 ELSE 0)
                     + (IF f.comma THEN 100 ELSE 0)
                     + (IF f.distinct /\ f.groupBy THEN 50 ELSE 0)
        IN scorer.before = Max(0, Min(1000, 1000 - charged))

(***************************************************************************)
(* The aggregate error score: ErrorTaxonomyClassifier.score_errors on a    *)
(* list of error messages.                                                 *)
(***************************************************************************)
ErrorLists == SeqsUpTo(ErrorKinds, MaxErrors)

\* total_severity of score_errors, in tenths
total_severity(errors) ==
    SumSeq([i \in DOMAIN errors |-> Severity10(errors[i])])

InitErrors ==
    /\ scorer \in {[pc |-> "input", errors |-> e, error_score |-> 0] :
                      e \in ErrorLists}
    /\ agent = Idle /\ server = Idle /\ parser = Idle /\ detector = Idle
    /\ adapter = Idle /\ manager = Idle

ErrorsScore ==
    /\ scorer.pc = "input"
    /\ scorer' = [scorer EXCEPT !.pc = "scored",
                                !.error_score = score_errors(scorer.errors)]
    /\ UNCHANGED <<agent, server, parser, detector, adapter, manager>>

NextErrors == ErrorsScore

SpecErrors == InitErrors /\ [][NextErrors]_vars

\* C27: the aggregate error score is the curve of the weighted
\* hallucination scorer applied to the sum of the severities.
C27_ErrorScoreFollowsHallucinationCurve ==
    scorer.pc = "scored" =>
        scorer.error_score = hallucination_curve(total_severity(scorer.errors))

\* the pools the manager built and nobody closed
LivePools == {p \in 1..(manager.next - 1) : manager.closes[p] = 0}

\* C28: an open() whose connectivity check fails raises, leaves the manager
\* not open without a pool, and has closed the pool it built; is_open holds
\* only while the pool held is the one live pool; a manager that is not
\* open has left no pool open.
C28_FailedOpenLeavesNothingOpen ==
    /\ is_open(manager) => LivePools = {manager.pool}
    /\ ~is_open(manager) => LivePools = {}
    /\ (manager.last.call \in {"open", "__enter__"}
        /\ manager.last.kind = "raised")
          => /\ ~is_open(manager)
             /\ manager.pool = 0
             /\ manager.next > manager.last.next
                   => manager.closes[manager.last.next] = 1

\* an open() that built the second pool of the manager, failed its check
\* and closed that pool
C28_Witness ==
    /\ manager.last.call = "open" /\ manager.last.kind = "raised"
    /\ manager.last.next = 2 /\ manager.next = 3
    /\ manager.closes[2] = 1 /\ manager.pool = 0

(***************************************************************************)
(* The results the A2A server keeps per agent.                             *)
(***************************************************************************)
\* C29: the outcome of the last submission made under a registered
\* agent_id is the last of the results stored for it, whatever the outcome
\* and whatever the task it names; a submission under an agent_id that is
\* not registered is stored nowhere.
C29_EverySubmissionStored ==
    server.by.given =>
        IF server.by.registered
        THEN /\ server.by.agent_id \in DOMAIN server.results
             /\ server.results[server.by.agent_id] # <<>>
             /\ server.results[server.by.agent_id]
                   [Len(server.results[server.by.agent_id])] = server.last
        ELSE server.by.agent_id \notin DOMAIN server.results

\* C30: a call of register_agent leaves the stored results of every agent
\* that is already registered as they were.
C30_RegisterKeepsResults ==
    [][(server.pc = "on" /\ ~server'.by.given) =>
          \A id \in DOMAIN server.results :
              /\ id \in DOMAIN server'.results
              /\ server'.results[id] = server.results[id]]_vars

=============================================================================
